---- MODULE Spec2Model ----
(***************************************************************************)
(* A model of the deep_research package: the planning, search, source      *)
(* checking, conflict detection and synthesis agents (Agents.py), the      *)
(* orchestrator DeepResearchSystem.research (Core.py), the search          *)
(* providers (search_providers.py) and the command-line entry point        *)
(* (main.py).                                                              *)
(*                                                                         *)
(* Python strings are modelled as sequences of one-character strings, so   *)
(* that substring tests, lower(), split() and strip() are computed as the  *)
(* code computes them.                                                     *)
(***************************************************************************)
EXTENDS Integers, Sequences, FiniteSets, TLC

VARIABLES
    arg,        \* the argument of the pure operation being applied
    ret,        \* <<result>> once the operation has returned, <<>> before
    \* main.py: the command-line process
    environ,        \* os.environ: the two API keys, each unset, empty or set
    ddg_installed,  \* whether "import duckduckgo_search" succeeds
    args,           \* the parsed command line: query, test, interactive
    mpc,            \* where the process is
    env_check,      \* what check_environment printed and returned, <<>> before
    exit_status,    \* the process's exit status, <<>> while it runs
    provider,       \* the provider of the DeepResearchSystem in use, <<>> before
    test_index,     \* run_test_queries: the 1-based index of the next query
    query_bound,    \* run_interactive_mode: whether local "query" is bound
    line,           \* run_interactive_mode: the query being researched
    reads,          \* run_interactive_mode: the calls of input() so far
    researched,     \* the calls of research so far: query and outcome, in call order
    events,         \* run_interactive_mode: what input() and research did, in order
    \* search_providers.py: one call of a provider's search
    p_call,         \* the provider called, the query and num_results
    p_pc,           \* where the call is
    p_response,     \* TavilySearchProvider: the HTTP response, <<>> before
    p_results,      \* DuckDuckGoSearchProvider: the local list "results"
    p_acquired,     \* DuckDuckGoSearchProvider: whether the DDGS() context is held
    p_failure,      \* the failures met in the call, in order
    p_log,          \* the levels of the records logged, in order
    p_out,          \* how the call ended, <<>> while it runs
    \* Core.py: one call of DeepResearchSystem.research
    r_query,        \* the query researched
    responses,      \* what the provider does for each task of the plan
    r_pc,           \* where research is
    r_plan,         \* <<the ResearchPlan>>, <<>> before phase 1
    coroutines,     \* the state of each SearchAgent.execute(task) coroutine
    gather_results, \* asyncio.gather's slot for each coroutine, <<>> if unfilled
    completion_order, \* the coroutines in the order in which they ended
    completed_tasks,  \* what gather returned, <<>> before
    r_all_sources,  \* all_sources, the aggregate
    r_conflicts,    \* the conflicts of phase 4
    findings        \* <<the ResearchFindings returned>>, <<>> before

pureVars == <<arg, ret>>
mainVars == <<environ, ddg_installed, args, mpc, env_check, exit_status,
              provider, test_index, query_bound, line, reads, researched,
              events>>
provVars == <<p_call, p_pc, p_response, p_results, p_acquired, p_failure,
              p_log, p_out>>
resVars == <<r_query, responses, r_pc, r_plan, coroutines, gather_results,
             completion_order, completed_tasks, r_all_sources, r_conflicts,
             findings>>
vars == <<pureVars, mainVars, provVars, resVars>>

\* The operation has not returned yet.
NoResult == <<>>

\* What the operation returned.
Returned == ret[1]

\* os.getenv(name) is None, "" or a non-empty string.
Unset == "unset"
Empty == "empty"
Key == "key"

\* No command-line process: the state of main.py's variables in the
\* specifications that apply one operation of the library.
MainIdle ==
    /\ environ = [TAVILY_API_KEY |-> Unset, SEARCH_API_KEY |-> Unset]
    /\ ddg_installed = TRUE
    /\ args = [query |-> <<>>, test |-> FALSE, interactive |-> FALSE]
    /\ mpc = "none"
    /\ env_check = <<>>
    /\ exit_status = <<>>
    /\ provider = <<>>
    /\ test_index = 1
    /\ query_bound = FALSE
    /\ line = <<>>
    /\ reads = 0
    /\ researched = <<>>
    /\ events = <<>>

\* No provider call.
ProvIdle ==
    /\ p_call = [provider |-> "none"]
    /\ p_pc = "none"
    /\ p_response = <<>>
    /\ p_results = <<>>
    /\ p_acquired = FALSE
    /\ p_failure = <<>>
    /\ p_log = <<>>
    /\ p_out = <<>>

\* No call of research.
ResIdle ==
    /\ r_query = <<>>
    /\ responses = <<>>
    /\ r_pc = "none"
    /\ r_plan = <<>>
    /\ coroutines = <<>>
    /\ gather_results = <<>>
    /\ completion_order = <<>>
    /\ completed_tasks = <<>>
    /\ r_all_sources = <<>>
    /\ r_conflicts = <<>>
    /\ findings = <<>>

\* No pure operation under application.
PureIdle ==
    /\ arg = [op |-> "none"]
    /\ ret = NoResult

----------------------------------------------------------------------------
(* Python str operations on sequences of characters.                       *)

\* str.lower() on one character (ASCII letters).
LowerChar(c) ==
    CASE c = "A" -> "a" [] c = "B" -> "b" [] c = "C" -> "c" [] c = "D" -> "d"
      [] c = "E" -> "e" [] c = "F" -> "f" [] c = "G" -> "g" [] c = "H" -> "h"
      [] c = "I" -> "i" [] c = "J" -> "j" [] c = "K" -> "k" [] c = "L" -> "l"
      [] c = "M" -> "m" [] c = "N" -> "n" [] c = "O" -> "o" [] c = "P" -> "p"
      [] c = "Q" -> "q" [] c = "R" -> "r" [] c = "S" -> "s" [] c = "T" -> "t"
      [] c = "U" -> "u" [] c = "V" -> "v" [] c = "W" -> "w" [] c = "X" -> "x"
      [] c = "Y" -> "y" [] c = "Z" -> "z" [] OTHER -> c

\* s.lower()
Lower(s) == [i \in 1..Len(s) |-> LowerChar(s[i])]

\* s[i-1:].startswith(p), i counted from 1
StartsAt(p, s, i) ==
    /\ i + Len(p) - 1 <= Len(s)
    /\ \A k \in 1..Len(p) : s[i + k - 1] = p[k]

\* p in s
Contains(p, s) == \E i \in 1..(Len(s) + 1) : StartsAt(p, s, i)

\* s.find(p, start) counted from 1: the least position >= start where p
\* occurs, 0 when there is none (Python's -1).
Find(p, s, start) ==
    LET hits == {i \in start..(Len(s) + 1) : StartsAt(p, s, i)}
    IN  IF hits = {} THEN 0 ELSE CHOOSE i \in hits : \A j \in hits : i <= j

\* s[a-1:b] with Python's clamping; positions counted from 1, both included.
Slice(s, a, b) ==
    LET lo == IF a < 1 THEN 1 ELSE a
        hi == IF b > Len(s) THEN Len(s) ELSE b
    IN  IF lo > hi THEN <<>> ELSE SubSeq(s, lo, hi)

\* s.split(sep): cut at the non-overlapping occurrences of sep, left to right.
RECURSIVE Split(_, _)
Split(s, sep) ==
    LET i == Find(sep, s, 1)
    IN  IF i = 0 THEN <<s>>
        ELSE <<Slice(s, 1, i - 1)>> \o Split(Slice(s, i + Len(sep), Len(s)), sep)

\* The characters str.strip() removes.
Whitespace == {" ", "\t", "\n", "\r"}

\* s.strip()
Strip(s) ==
    LET keep == {i \in 1..Len(s) : s[i] \notin Whitespace}
    IN  IF keep = {} THEN <<>>
        ELSE Slice(s, CHOOSE i \in keep : \A j \in keep : i <= j,
                      CHOOSE i \in keep : \A j \in keep : i >= j)

\* Concatenation of a sequence of strings.
RECURSIVE Concat(_)
Concat(ss) == IF ss = <<>> THEN <<>> ELSE Head(ss) \o Concat(Tail(ss))

----------------------------------------------------------------------------
(* SourceQuality and SourceCheckerAgent.assess_quality                     *)

HIGH == "high"
MEDIUM == "medium"
LOW == "low"
SourceQuality == {HIGH, MEDIUM, LOW}

high_quality_domains ==
    { <<"e", "d", "u">>, <<"g", "o", "v">>, <<"o", "r", "g">>,
      <<"n", "a", "t", "u", "r", "e", ".", "c", "o", "m">>, <<"s", "c", "i", "e", "n", "c", "e", "m", "a", "g", ".", "o", "r", "g">>, <<"p", "n", "a", "s", ".", "o", "r", "g">>,
      <<"b", "b", "c", ".", "c", "o", "m">>, <<"r", "e", "u", "t", "e", "r", "s", ".", "c", "o", "m">>, <<"a", "p", ".", "o", "r", "g">>, <<"n", "p", "r", ".", "o", "r", "g">> }

medium_quality_indicators ==
    { <<"w", "i", "k", "i", "p", "e", "d", "i", "a", ".", "o", "r", "g">>, <<"i", "n", "v", "e", "s", "t", "o", "p", "e", "d", "i", "a", ".", "c", "o", "m">>, <<"b", "r", "i", "t", "a", "n", "n", "i", "c", "a", ".", "c", "o", "m">> }

low_quality_indicators ==
    { <<"b", "l", "o", "g">>, <<"p", "e", "r", "s", "o", "n", "a", "l">>, <<"f", "o", "r", "u", "m">>, <<"r", "e", "d", "d", "i", "t", ".", "c", "o", "m">> }

\* The characters urllib.parse accepts in a scheme.
scheme_chars ==
    { "a", "b", "c", "d", "e", "f", "g", "h", "i", "j", "k", "l", "m",
      "n", "o", "p", "q", "r", "s", "t", "u", "v", "w", "x", "y", "z",
      "A", "B", "C", "D", "E", "F", "G", "H", "I", "J", "K", "L", "M",
      "N", "O", "P", "Q", "R", "S", "T", "U", "V", "W", "X", "Y", "Z",
      "0", "1", "2", "3", "4", "5", "6", "7", "8", "9", "+", "-", "." }

Digits == {"0", "1", "2", "3", "4", "5", "6", "7", "8", "9"}

\* urlparse(url).netloc: an initial "scheme:" is removed when every character
\* before the first colon is a scheme character and the first is a letter;
\* then, if what is left starts with "//", the network location runs from
\* there to the first of "/", "?", "#" (or to the end).
netloc(url) ==
    LET i    == Find(<<":">>, url, 1)
        hasS == /\ i > 1
                /\ url[1] \in scheme_chars \ (Digits \cup {"+", "-", "."})
                /\ \A k \in 1..(i - 1) : url[k] \in scheme_chars
        rest == IF hasS THEN Slice(url, i + 1, Len(url)) ELSE url
        cuts == {k \in 3..Len(rest) : rest[k] \in {"/", "?", "#"}}
        stop == IF cuts = {} THEN Len(rest) + 1
                ELSE CHOOSE k \in cuts : \A j \in cuts : k <= j
    IN  IF StartsAt(<<"/", "/">>, rest, 1) THEN Slice(rest, 3, stop - 1)
        ELSE <<>>

\* A plausible slip: the medium-quality indicators tested before the
\* high-quality ones.
assess_quality_MediumFirst(url) ==
    IF url = <<>> THEN LOW
    ELSE LET domain == Lower(netloc(url))
         IN  IF \E ind \in medium_quality_indicators : Contains(ind, domain)
                 THEN MEDIUM
             ELSE IF \E ind \in high_quality_domains : Contains(ind, domain)
                 THEN HIGH
             ELSE IF \E ind \in low_quality_indicators : Contains(ind, domain)
                 THEN LOW
             ELSE MEDIUM

\* SourceCheckerAgent.assess_quality(url)
assess_quality(url) ==
    IF url = <<>> THEN LOW
    ELSE LET domain == Lower(netloc(url))
         IN  IF \E ind \in high_quality_domains : Contains(ind, domain)
                 THEN HIGH
             ELSE IF \E ind \in medium_quality_indicators : Contains(ind, domain)
                 THEN MEDIUM
             ELSE IF \E ind \in low_quality_indicators : Contains(ind, domain)
                 THEN LOW
             ELSE MEDIUM

----------------------------------------------------------------------------
(* assess_quality applied to a bounded set of URLs.                        *)

UrlSchemes == { <<"h", "t", "t", "p", "s", ":", "/", "/">>, <<"h", "t", "t", "p", ":", "/", "/">>, <<>> }
UrlSubdomains == { <<"w", "w", "w", ".">>, <<"e", "n", ".">>, <<>> }
UrlNames == { <<"n", "a", "t", "u", "r", "e">>, <<"w", "i", "k", "i", "p", "e", "d", "i", "a">>, <<"s", "o", "m", "e", "f", "o", "r", "u", "m">>, <<"r", "a", "n", "d", "o", "m", "s", "i", "t", "e">>,
              <<"m", "y", "b", "l", "o", "g">>, <<"R", "e", "d", "d", "i", "t">>, <<"i", "n", "v", "e", "s", "t", "o", "p", "e", "d", "i", "a">>, <<"m", "o", "r", "g", "a", "n">> }
UrlSuffixes == { <<".", "c", "o", "m">>, <<".", "o", "r", "g">>, <<".", "i", "o">>, <<".", "e", "d", "u">> }
UrlPaths == { <<>>, <<"/", "a", "r", "t", "i", "c", "l", "e", "s", "/", "x">>, <<"/", "w", "i", "k", "i", "/", "X">>, <<"/", "t", "h", "r", "e", "a", "d">>, <<"/", "o", "r", "g", "/", "f", "o", "r", "u", "m">> }

Urls ==
    {<<>>} \cup
    { s \o d \o n \o t \o p :
        s \in UrlSchemes, d \in UrlSubdomains, n \in UrlNames,
        t \in UrlSuffixes, p \in UrlPaths }

InitQuality ==
    /\ arg \in [op : {"assess_quality"}, url : Urls]
    /\ ret = NoResult
    /\ MainIdle /\ ProvIdle /\ ResIdle

Call_assess_quality ==
    /\ arg.op = "assess_quality"
    /\ ret = NoResult
    /\ ret' = <<assess_quality(arg.url)>>
    /\ UNCHANGED arg
    /\ UNCHANGED <<mainVars, provVars, resVars>>

NextQuality == Call_assess_quality

SpecQuality == InitQuality /\ [][NextQuality]_vars

url_empty == <<>>
url_nature == <<"h", "t", "t", "p", "s", ":", "/", "/", "w", "w", "w", ".", "n", "a", "t", "u", "r", "e", ".", "c", "o", "m", "/", "a", "r", "t", "i", "c", "l", "e", "s", "/", "x">>
url_wikipedia == <<"h", "t", "t", "p", "s", ":", "/", "/", "e", "n", ".", "w", "i", "k", "i", "p", "e", "d", "i", "a", ".", "o", "r", "g", "/", "w", "i", "k", "i", "/", "X">>
url_someforum == <<"h", "t", "t", "p", "s", ":", "/", "/", "s", "o", "m", "e", "f", "o", "r", "u", "m", ".", "c", "o", "m", "/", "t", "h", "r", "e", "a", "d">>
url_randomsite == <<"h", "t", "t", "p", "s", ":", "/", "/", "r", "a", "n", "d", "o", "m", "s", "i", "t", "e", ".", "i", "o">>

\* C3: assess_quality returns LOW for the empty URL, HIGH for the nature.com
\* article, MEDIUM for the en.wikipedia.org page, LOW for the someforum.com
\* thread and MEDIUM for randomsite.io.
C3_ExampleQualities ==
    (arg.op = "assess_quality" /\ ret # NoResult) =>
        /\ arg.url = url_empty => Returned = LOW
        /\ arg.url = url_nature => Returned = HIGH
        /\ arg.url = url_wikipedia => Returned = MEDIUM
        /\ arg.url = url_someforum => Returned = LOW
        /\ arg.url = url_randomsite => Returned = MEDIUM

----------------------------------------------------------------------------
(* PlanningAgent                                                           *)

\* str(n) for a natural number n: its decimal digits.
DigitChar(d) ==
    CASE d = 0 -> "0" [] d = 1 -> "1" [] d = 2 -> "2" [] d = 3 -> "3"
      [] d = 4 -> "4" [] d = 5 -> "5" [] d = 6 -> "6" [] d = 7 -> "7"
      [] d = 8 -> "8" [] d = 9 -> "9"

RECURSIVE Str(_)
Str(n) == IF n < 10 THEN <<DigitChar(n)>>
          ELSE Str(n \div 10) \o <<DigitChar(n % 10)>>

\* ResearchTask(id, query, priority): completed, results and analysis take
\* their dataclass defaults.
ResearchTask(id, query, priority) ==
    [id |-> id, query |-> query, priority |-> priority,
     completed |-> FALSE, results |-> <<>>, analysis |-> <<>>]

\* The number of items _extract_comparison_items keeps.
MaxComparisonItems == 5

\* A plausible slip: the limit of 5 items left out.
extract_comparison_items_NoLimit(query) ==
    LET q == Lower(query)
        items == IF Contains(<<"v", "s">>, q) THEN Split(q, <<"v", "s">>)
                 ELSE IF Contains(<<"v", "e", "r", "s", "u", "s">>, q) THEN Split(q, <<"v", "e", "r", "s", "u", "s">>)
                 ELSE IF Contains(<<"e", "l", "e", "c", "t", "r", "i", "c">>, q) /\ Contains(<<"g", "a", "s">>, q)
                     THEN << <<"e", "l", "e", "c", "t", "r", "i", "c", " ", "v", "e", "h", "i", "c", "l", "e", "s">>, <<"g", "a", "s", " ", "v", "e", "h", "i", "c", "l", "e", "s">> >>
                 ELSE <<query>>
    IN  [i \in 1..Len(items) |-> Strip(items[i])]

\* PlanningAgent._extract_comparison_items(query)
extract_comparison_items(query) ==
    LET q == Lower(query)
        items == IF Contains(<<"v", "s">>, q) THEN Split(q, <<"v", "s">>)
                 ELSE IF Contains(<<"v", "e", "r", "s", "u", "s">>, q) THEN Split(q, <<"v", "e", "r", "s", "u", "s">>)
                 ELSE IF Contains(<<"e", "l", "e", "c", "t", "r", "i", "c">>, q) /\ Contains(<<"g", "a", "s">>, q)
                     THEN << <<"e", "l", "e", "c", "t", "r", "i", "c", " ", "v", "e", "h", "i", "c", "l", "e", "s">>, <<"g", "a", "s", " ", "v", "e", "h", "i", "c", "l", "e", "s">> >>
                 ELSE <<query>>
        kept  == Slice(items, 1, MaxComparisonItems)
    IN  [i \in 1..Len(kept) |-> Strip(kept[i])]

\* A plausible slip: "pros and cons" and "compare" looked for in the query as
\* typed, without lower().
create_research_tasks_CaseSensitive(query) ==
    IF Contains(<<"c", "o", "m", "p", "a", "r", "e">>, query) THEN
        LET items == extract_comparison_items(query)
        IN  [i \in 1..Len(items) |->
                ResearchTask(<<"c", "o", "m", "p", "a", "r", "e", "_">> \o Str(i - 1),
                             <<"R", "e", "s", "e", "a", "r", "c", "h", " ">> \o items[i] \o <<" ", "i", "n", " ", "c", "o", "n", "t", "e", "x", "t", " ", "o", "f", " ">> \o query,
                             1)]
    ELSE IF Contains(<<"p", "r", "o", "s", " ", "a", "n", "d", " ", "c", "o", "n", "s">>, query) THEN
        << ResearchTask(<<"p", "r", "o", "s">>, <<"A", "d", "v", "a", "n", "t", "a", "g", "e", "s", " ", "o", "f", " ">> \o query, 1),
           ResearchTask(<<"c", "o", "n", "s">>, <<"D", "i", "s", "a", "d", "v", "a", "n", "t", "a", "g", "e", "s", " ", "o", "f", " ">> \o query, 1) >>
    ELSE
        << ResearchTask(<<"o", "v", "e", "r", "v", "i", "e", "w">>, <<"G", "e", "n", "e", "r", "a", "l", " ", "o", "v", "e", "r", "v", "i", "e", "w", ":", " ">> \o query, 1),
           ResearchTask(<<"d", "e", "t", "a", "i", "l", "s">>, <<"D", "e", "t", "a", "i", "l", "e", "d", " ", "a", "n", "a", "l", "y", "s", "i", "s", ":", " ">> \o query, 2),
           ResearchTask(<<"c", "o", "n", "t", "e", "x", "t">>, <<"C", "o", "n", "t", "e", "x", "t", " ", "a", "n", "d", " ", "b", "a", "c", "k", "g", "r", "o", "u", "n", "d", ":", " ">> \o query, 2) >>

\* PlanningAgent._create_research_tasks(query): enumerate(items) numbers the
\* comparison tasks from 0.
create_research_tasks(query) ==
    IF Contains(<<"c", "o", "m", "p", "a", "r", "e">>, Lower(query)) THEN
        LET items == extract_comparison_items(query)
        IN  [i \in 1..Len(items) |->
                ResearchTask(<<"c", "o", "m", "p", "a", "r", "e", "_">> \o Str(i - 1),
                             <<"R", "e", "s", "e", "a", "r", "c", "h", " ">> \o items[i] \o <<" ", "i", "n", " ", "c", "o", "n", "t", "e", "x", "t", " ", "o", "f", " ">> \o query,
                             1)]
    ELSE IF Contains(<<"p", "r", "o", "s", " ", "a", "n", "d", " ", "c", "o", "n", "s">>, Lower(query)) THEN
        << ResearchTask(<<"p", "r", "o", "s">>, <<"A", "d", "v", "a", "n", "t", "a", "g", "e", "s", " ", "o", "f", " ">> \o query, 1),
           ResearchTask(<<"c", "o", "n", "s">>, <<"D", "i", "s", "a", "d", "v", "a", "n", "t", "a", "g", "e", "s", " ", "o", "f", " ">> \o query, 1) >>
    ELSE
        << ResearchTask(<<"o", "v", "e", "r", "v", "i", "e", "w">>, <<"G", "e", "n", "e", "r", "a", "l", " ", "o", "v", "e", "r", "v", "i", "e", "w", ":", " ">> \o query, 1),
           ResearchTask(<<"d", "e", "t", "a", "i", "l", "s">>, <<"D", "e", "t", "a", "i", "l", "e", "d", " ", "a", "n", "a", "l", "y", "s", "i", "s", ":", " ">> \o query, 2),
           ResearchTask(<<"c", "o", "n", "t", "e", "x", "t">>, <<"C", "o", "n", "t", "e", "x", "t", " ", "a", "n", "d", " ", "b", "a", "c", "k", "g", "r", "o", "u", "n", "d", ":", " ">> \o query, 2) >>

\* PlanningAgent.execute(query): the ResearchPlan (its created_at timestamp,
\* which nothing reads, is left out).
PlanningAgent_execute(query) ==
    [main_query |-> query, tasks |-> create_research_tasks(query)]

----------------------------------------------------------------------------
(* PlanningAgent.execute applied to a bounded set of queries: every        *)
(* concatenation of at most MaxFragments of the fragments below.           *)

MaxFragments == 3

QueryFragments ==
    { <<"c", "o", "m", "p", "a", "r", "e", " ">>, <<"C", "o", "m", "p", "a", "r", "e", " ">>, <<"p", "r", "o", "s", " ", "a", "n", "d", " ", "c", "o", "n", "s">>, <<"P", "r", "o", "s", " ", "A", "n", "d", " ", "C", "o", "n", "s">>,
      <<" ", "v", "s", " ">>, <<" ", "v", "e", "r", "s", "u", "s", " ">>, <<"e", "l", "e", "c", "t", "r", "i", "c">>, <<"g", "a", "s">>, <<"a">>, <<" ">>,
      <<"a", " ", "v", "s", " ", "b", " ", "v", "s", " ", "c", " ", "v", "s", " ", "d", " ", "v", "s", " ", "e", " ", "v", "s", " ", "f">> }

Queries ==
    UNION { { Concat(fs) : fs \in [1..n -> QueryFragments] } : n \in 0..MaxFragments }

InitPlan ==
    /\ arg \in [op : {"plan"}, query : Queries]
    /\ ret = NoResult
    /\ MainIdle /\ ProvIdle /\ ResIdle

Call_PlanningAgent_execute ==
    /\ arg.op = "plan"
    /\ ret = NoResult
    /\ ret' = <<PlanningAgent_execute(arg.query)>>
    /\ UNCHANGED arg
    /\ UNCHANGED <<mainVars, provVars, resVars>>

NextPlan == Call_PlanningAgent_execute

SpecPlan == InitPlan /\ [][NextPlan]_vars

Planned == arg.op = "plan" /\ ret # NoResult

HasProsAndCons(q) == Contains(<<"p", "r", "o", "s", " ", "a", "n", "d", " ", "c", "o", "n", "s">>, Lower(q))
HasCompare(q) == Contains(<<"c", "o", "m", "p", "a", "r", "e">>, Lower(q))

IsProsConsPlan(tasks) ==
    /\ Len(tasks) = 2
    /\ tasks[1].id = <<"p", "r", "o", "s">> /\ tasks[1].priority = 1
    /\ tasks[2].id = <<"c", "o", "n", "s">> /\ tasks[2].priority = 1

\* C4 as stated: every query that contains "pros and cons" in any letter case
\* is planned as exactly the two tasks pros and cons, in that order, priority
\* 1 each.
C4_ProsConsAlways ==
    (Planned /\ HasProsAndCons(arg.query)) => IsProsConsPlan(Returned.tasks)

\* C4 amended: every query that contains "pros and cons" in any letter case
\* and does not contain "compare" in any letter case is planned as exactly
\* the two tasks pros and cons, in that order, priority 1 each.
C4_ProsConsUnlessCompare ==
    (Planned /\ HasProsAndCons(arg.query) /\ ~HasCompare(arg.query)) =>
        IsProsConsPlan(Returned.tasks)

\* A query with "Pros And Cons" in mixed case and no "compare" has been planned.
C4_Witness ==
    /\ Planned
    /\ Contains(<<"P", "r", "o", "s", " ", "A", "n", "d", " ", "C", "o", "n", "s">>, arg.query)
    /\ ~HasCompare(arg.query)
    /\ Len(Returned.tasks) = 2

\* The pieces the claim describes for a comparison query q, before trimming
\* and before the limit of 5: the pieces between the occurrences of "vs" if
\* there is one, else of "versus", else the fixed electric/gas pair, else the
\* query itself.
RECURSIVE PiecesFrom(_, _, _)
PiecesFrom(s, sep, from) ==
    LET cut == {i \in from..Len(s) : StartsAt(sep, s, i)}
    IN  IF cut = {} THEN <<Slice(s, from, Len(s))>>
        ELSE LET i == CHOOSE i \in cut : \A j \in cut : i <= j
             IN  <<Slice(s, from, i - 1)>> \o PiecesFrom(s, sep, i + Len(sep))

ComparisonPieces(q) ==
    LET l == Lower(q)
    IN  IF \E i \in 1..Len(l) : StartsAt(<<"v", "s">>, l, i) THEN PiecesFrom(l, <<"v", "s">>, 1)
        ELSE IF \E i \in 1..Len(l) : StartsAt(<<"v", "e", "r", "s", "u", "s">>, l, i)
            THEN PiecesFrom(l, <<"v", "e", "r", "s", "u", "s">>, 1)
        ELSE IF (\E i \in 1..Len(l) : StartsAt(<<"e", "l", "e", "c", "t", "r", "i", "c">>, l, i))
                /\ (\E i \in 1..Len(l) : StartsAt(<<"g", "a", "s">>, l, i))
            THEN << <<"e", "l", "e", "c", "t", "r", "i", "c", " ", "v", "e", "h", "i", "c", "l", "e", "s">>, <<"g", "a", "s", " ", "v", "e", "h", "i", "c", "l", "e", "s">> >>
        ELSE <<q>>

\* C6: a query containing "compare" in any letter case is planned as k tasks,
\* k the lesser of the number of extracted items and 5 and 1 <= k <= 5, with
\* the pairwise distinct ids compare_0 .. compare_(k-1) in that order,
\* priority 1 each, the i-th task researching the i-th extracted item.
C6_ComparePlan ==
    (Planned /\ HasCompare(arg.query)) =>
        LET pieces == ComparisonPieces(arg.query)
            k == IF Len(pieces) < 5 THEN Len(pieces) ELSE 5
            tasks == Returned.tasks
        IN  /\ Len(tasks) = k
            /\ 1 <= k /\ k <= 5
            /\ \A i \in 1..k :
                /\ tasks[i].id = <<"c", "o", "m", "p", "a", "r", "e", "_">> \o <<DigitChar(i - 1)>>
                /\ tasks[i].priority = 1
                /\ tasks[i].query =
                       <<"R", "e", "s", "e", "a", "r", "c", "h", " ">> \o Strip(pieces[i]) \o <<" ", "i", "n", " ", "c", "o", "n", "t", "e", "x", "t", " ", "o", "f", " ">> \o arg.query
            /\ \A i, j \in 1..k : tasks[i].id = tasks[j].id => i = j

\* A comparison query with more than 5 pieces has been planned.
C6_Witness ==
    /\ Planned
    /\ HasCompare(arg.query)
    /\ Len(ComparisonPieces(arg.query)) > 5
    /\ Len(Returned.tasks) = 5

----------------------------------------------------------------------------
(* main.py: check_environment, main and the three modes.  A call of        *)
(* DeepResearchSystem.research is one step here, which returns findings or *)
(* raises; the orchestrator itself is modelled further down.               *)

\* bool(os.getenv(name)): None and "" are falsy.
Truthy(v) == v = Key

optional_vars == {"TAVILY_API_KEY", "SEARCH_API_KEY"}

\* check_environment(): what it prints (the warning, the error) and returns.
check_environment(e, installed) ==
    LET missing_optional == {v \in optional_vars : ~Truthy(e[v])}
        warned == missing_optional # {}
    IN  IF ~installed /\ missing_optional # {}
        THEN [ok |-> FALSE, warned |-> warned, error |-> TRUE]
        ELSE [ok |-> TRUE, warned |-> warned, error |-> FALSE]

\* get_default_search_provider()
get_default_search_provider(e) ==
    IF Truthy(e["TAVILY_API_KEY"]) THEN "TavilySearchProvider"
    ELSE IF Truthy(e["SEARCH_API_KEY"]) THEN "SearchAPIProvider"
    ELSE "DuckDuckGoSearchProvider"

\* run_test_queries: test_queries
test_queries ==
    << <<"W", "h", "a", "t", " ", "a", "r", "e", " ", "p", "r", "o", "s", " ", "a", "n", "d", " ", "c", "o", "n", "s", " ", "o", "f", " ", "e", "l", "e", "c", "t", "r", "i", "c", " ", "c", "a", "r", "s", "?">>,
       <<"C", "o", "m", "p", "a", "r", "e", " ", "r", "e", "n", "e", "w", "a", "b", "l", "e", " ", "e", "n", "e", "r", "g", "y", " ", "v", "s", " ", "f", "o", "s", "s", "i", "l", " ", "f", "u", "e", "l", "s">>,
       <<"E", "n", "v", "i", "r", "o", "n", "m", "e", "n", "t", "a", "l", " ", "i", "m", "p", "a", "c", "t", " ", "o", "f", " ", "c", "r", "y", "p", "t", "o", "c", "u", "r", "r", "e", "n", "c", "y", " ", "m", "i", "n", "i", "n", "g">>,
       <<"B", "e", "n", "e", "f", "i", "t", "s", " ", "a", "n", "d", " ", "r", "i", "s", "k", "s", " ", "o", "f", " ", "a", "r", "t", "i", "f", "i", "c", "i", "a", "l", " ", "i", "n", "t", "e", "l", "l", "i", "g", "e", "n", "c", "e", " ", "i", "n", " ", "h", "e", "a", "l", "t", "h", "c", "a", "r", "e">> >>

\* run_interactive_mode: the words that end the loop.
quit_words == { <<"q", "u", "i", "t">>, <<"e", "x", "i", "t">>, <<"q">> }

\* The calls of input() one interactive session makes at most.
MaxReads == 3

\* The lines input() may return.
InputLines ==
    { <<>>, <<" ", " ">>, <<"q", "u", "i", "t">>, <<"E", "X", "I", "T">>, <<" ", "Q", " ">>, <<"q", "u", "i", "t", "s">>, <<"s", "o", "l", "a", "r", " ", "p", "o", "w", "e", "r">> }

\* The --query values of the command line (<<>>: the option is absent or
\* empty, which argparse's "if args.query" treats alike).
QueryArgs == { <<>>, <<"s", "o", "l", "a", "r", " ", "p", "o", "w", "e", "r">> }

InitMain ==
    /\ PureIdle /\ ProvIdle /\ ResIdle
    /\ environ \in [optional_vars -> {Unset, Empty, Key}]
    /\ ddg_installed \in BOOLEAN
    /\ args \in [query : QueryArgs, test : BOOLEAN, interactive : BOOLEAN]
    /\ mpc = "start"
    /\ env_check = <<>>
    /\ exit_status = <<>>
    /\ provider = <<>>
    /\ test_index = 1
    /\ query_bound = FALSE
    /\ line = <<>>
    /\ reads = 0
    /\ researched = <<>>
    /\ events = <<>>

\* main(): setup_logging()
SetupLogging ==
    /\ mpc = "start"
    /\ mpc' = "check_environment"
    /\ UNCHANGED <<environ, ddg_installed, args, env_check, exit_status,
                   provider, test_index, query_bound, line, reads, researched>>
    /\ UNCHANGED events
    /\ UNCHANGED <<pureVars, provVars, resVars>>

\* main(): if not check_environment(): sys.exit(1)
CheckEnvironment ==
    /\ mpc = "check_environment"
    /\ LET r == check_environment(environ, ddg_installed)
       IN  /\ env_check' = <<r>>
           /\ IF r.ok
              THEN mpc' = "parse_args" /\ UNCHANGED exit_status
              ELSE mpc' = "exited" /\ exit_status' = <<1>>
    /\ UNCHANGED <<environ, ddg_installed, args, provider, test_index,
                   query_bound, line, reads, researched>>
    /\ UNCHANGED events
    /\ UNCHANGED <<pureVars, provVars, resVars>>

\* main(): the mode chosen from the arguments; each mode starts by
\* constructing a DeepResearchSystem with the default provider.
ParseArgs ==
    /\ mpc = "parse_args"
    /\ IF args.query # <<>>
           THEN mpc' = "single" /\ provider' = <<get_default_search_provider(environ)>>
                /\ UNCHANGED exit_status
       ELSE IF args.test
           THEN mpc' = "test" /\ provider' = <<get_default_search_provider(environ)>>
                /\ UNCHANGED exit_status
       ELSE IF args.interactive
           THEN mpc' = "interactive" /\ provider' = <<get_default_search_provider(environ)>>
                /\ UNCHANGED exit_status
       ELSE mpc' = "exited" /\ exit_status' = <<0>> /\ UNCHANGED provider
    /\ UNCHANGED <<environ, ddg_installed, args, env_check, test_index,
                   query_bound, line, reads, researched>>
    /\ UNCHANGED events
    /\ UNCHANGED <<pureVars, provVars, resVars>>

\* run_single_query(query): research returns or raises an Exception, which is
\* caught and reported; then the process ends.
RunSingleQuery ==
    /\ mpc = "single"
    /\ \E outcome \in {"returns", "raises"} :
        /\ researched' = Append(researched, [query |-> args.query, outcome |-> outcome])
        /\ mpc' = "exited"
        /\ exit_status' = <<0>>
    /\ UNCHANGED <<environ, ddg_installed, args, env_check, provider,
                   test_index, query_bound, line, reads>>
    /\ UNCHANGED events
    /\ UNCHANGED <<pureVars, provVars, resVars>>

\* The exit status of a process that ends on an unhandled KeyboardInterrupt
\* (asyncio.run re-raises it to main, which has no handler).
InterruptStatus == 130

\* A plausible slip: no try/except around research in the loop, so the first
\* failing query ends the mode with a traceback.
RunTestQuery_NoTry ==
    /\ mpc = "test"
    /\ test_index <= Len(test_queries)
    /\ \E outcome \in {"returns", "raises", "KeyboardInterrupt"} :
        /\ researched' = Append(researched, [query |-> test_queries[test_index], outcome |-> outcome])
        /\ test_index' = test_index + 1
        /\ IF outcome = "returns"
               THEN UNCHANGED <<mpc, exit_status>>
           ELSE IF outcome = "raises"
               THEN mpc' = "exited" /\ exit_status' = <<1>>
           ELSE mpc' = "exited" /\ exit_status' = <<InterruptStatus>>
    /\ UNCHANGED <<environ, ddg_installed, args, env_check,
                   provider, query_bound, line, reads>>
    /\ UNCHANGED events
    /\ UNCHANGED <<pureVars, provVars, resVars>>

\* run_test_queries: one turn of the loop over test_queries.  research
\* returns, or raises an Exception, which is caught and reported, and the loop
\* goes on; an interrupt of the process is no Exception: it passes the
\* handler and ends the process.
RunTestQuery ==
    /\ mpc = "test"
    /\ test_index <= Len(test_queries)
    /\ \E outcome \in {"returns", "raises", "KeyboardInterrupt"} :
        /\ researched' = Append(researched, [query |-> test_queries[test_index], outcome |-> outcome])
        /\ test_index' = test_index + 1
        /\ IF outcome = "KeyboardInterrupt"
               THEN mpc' = "exited" /\ exit_status' = <<InterruptStatus>>
               ELSE UNCHANGED <<mpc, exit_status>>
    /\ UNCHANGED <<environ, ddg_installed, args, env_check,
                   provider, query_bound, line, reads>>
    /\ UNCHANGED events
    /\ UNCHANGED <<pureVars, provVars, resVars>>

\* run_test_queries: the loop is over.
TestQueriesDone ==
    /\ mpc = "test"
    /\ test_index > Len(test_queries)
    /\ mpc' = "exited"
    /\ exit_status' = <<0>>
    /\ UNCHANGED <<environ, ddg_installed, args, env_check, provider,
                   test_index, query_bound, line, reads, researched>>
    /\ UNCHANGED events
    /\ UNCHANGED <<pureVars, provVars, resVars>>

\* One thing that happened in run_interactive_mode: input() returned the line
\* text ("input") or raised ("KeyboardInterrupt", "EOFError"), or
\* research(text) ended ("returns", "raises", "KeyboardInterrupt").
Event(ev, text) == [ev |-> ev, text |-> text]

\* run_interactive_mode: input() returns a line.  A blank line continues the
\* loop, a quit word leaves it, any other line is researched.
InteractiveReadLine ==
    /\ mpc = "interactive"
    /\ reads < MaxReads
    /\ \E l \in InputLines :
        LET query == Strip(l)
        IN  /\ reads' = reads + 1
            /\ query_bound' = TRUE
            /\ IF query = <<>>
                   THEN UNCHANGED <<mpc, line, exit_status>>
               ELSE IF Lower(query) \in quit_words
                   THEN mpc' = "exited" /\ exit_status' = <<0>> /\ UNCHANGED line
               ELSE mpc' = "interactive_research" /\ line' = query
                    /\ UNCHANGED exit_status
            /\ events' = Append(events, Event("input", l))
    /\ UNCHANGED <<environ, ddg_installed, args, env_check, provider,
                   test_index, researched>>
    /\ UNCHANGED <<pureVars, provVars, resVars>>

\* run_interactive_mode: input() raises.  KeyboardInterrupt leaves the loop:
\* raised in the coroutine it is caught and the mode returns (status 0);
\* delivered by the event loop as a cancellation it passes both handlers and
\* asyncio.run re-raises it (which of the two depends on the interpreter).
\* EOFError is an Exception: its handler formats the local "query", which is
\* unbound when no input() has returned yet, and then the handler itself
\* raises UnboundLocalError, which ends the process with a traceback (exit
\* status 1).
InteractiveReadRaises ==
    /\ mpc = "interactive"
    /\ reads < MaxReads
    /\ reads' = reads + 1
    /\ \E exc \in {"KeyboardInterrupt", "EOFError"} :
        /\ events' = Append(events, Event(exc, <<>>))
        /\ IF exc = "KeyboardInterrupt"
               THEN mpc' = "exited" /\ exit_status' \in {<<0>>, <<InterruptStatus>>}
           ELSE IF query_bound
               THEN UNCHANGED <<mpc, exit_status>>
           ELSE mpc' = "exited" /\ exit_status' = <<1>>
    /\ UNCHANGED <<environ, ddg_installed, args, env_check, provider,
                   test_index, query_bound, line, researched>>
    /\ UNCHANGED <<pureVars, provVars, resVars>>

\* run_interactive_mode: research(query) returns or raises an Exception (the
\* loop goes on), or is interrupted (the loop is left).
InteractiveResearch ==
    /\ mpc = "interactive_research"
    /\ \E outcome \in {"returns", "raises", "KeyboardInterrupt"} :
        /\ researched' = Append(researched, [query |-> line, outcome |-> outcome])
        /\ events' = Append(events, Event(outcome, line))
        /\ IF outcome = "KeyboardInterrupt"
               THEN mpc' = "exited" /\ exit_status' \in {<<0>>, <<InterruptStatus>>}
               ELSE mpc' = "interactive" /\ UNCHANGED exit_status
    /\ UNCHANGED <<environ, ddg_installed, args, env_check, provider,
                   test_index, query_bound, line, reads>>
    /\ UNCHANGED <<pureVars, provVars, resVars>>

NextMain ==
    \/ SetupLogging
    \/ CheckEnvironment
    \/ ParseArgs
    \/ RunSingleQuery
    \/ RunTestQuery
    \/ TestQueriesDone
    \/ InteractiveReadLine
    \/ InteractiveReadRaises
    \/ InteractiveResearch

SpecMain == InitMain /\ [][NextMain]_vars

\* C5: whenever at least one of TAVILY_API_KEY and SEARCH_API_KEY is set,
\* check_environment returns true and main does not exit with status 1,
\* whether or not the local fallback search library is installed.
C5_OneKeyPasses ==
    (env_check # <<>> /\ (environ["TAVILY_API_KEY"] = Key \/ environ["SEARCH_API_KEY"] = Key))
        => (env_check[1].ok /\ exit_status # <<1>>)

\* The process went into run_test_queries.
InTestMode ==
    /\ provider # <<>>
    /\ args.query = <<>>
    /\ args.test

\* No research call so far was interrupted.
NoInterrupt == \A k \in 1..Len(researched) : researched[k].outcome # "KeyboardInterrupt"

\* C11: in test mode the 4 built-in queries are researched one after the
\* other in list order, each exactly once (the calls made so far are always
\* the first queries of the list, in order); an exception escaping research
\* for one query is caught and the loop goes on with the next query; so for
\* every pattern of per-query failures the mode ends only after all 4
\* research calls, and it ends normally (exit status 0).
C11_TestModeRunsAll ==
    InTestMode =>
        /\ Len(researched) = test_index - 1
        /\ Len(researched) <= Len(test_queries)
        /\ \A k \in 1..Len(researched) : researched[k].query = test_queries[k]
        /\ NoInterrupt =>
            /\ (mpc = "test") => ENABLED (RunTestQuery \/ TestQueriesDone)
            /\ (mpc = "exited") => (Len(researched) = 4 /\ exit_status = <<0>>)
            /\ mpc \in {"test", "exited"}

\* Test mode has ended after 4 research calls of which the first and the
\* third raised.
C11_Witness ==
    /\ InTestMode
    /\ mpc = "exited"
    /\ exit_status = <<0>>
    /\ Len(researched) = 4
    /\ researched[1].outcome = "raises"
    /\ researched[2].outcome = "returns"
    /\ researched[3].outcome = "raises"

\* The process went into run_interactive_mode.
InInteractiveMode ==
    /\ provider # <<>>
    /\ args.query = <<>>
    /\ ~args.test
    /\ args.interactive

\* What a line read by input() is to the loop.
IsBlank(e) == e.ev = "input" /\ Strip(e.text) = <<>>
IsQuit(e) == e.ev = "input" /\ Lower(Strip(e.text)) \in quit_words
IsQuery(e) == e.ev = "input" /\ ~IsBlank(e) /\ ~IsQuit(e)
IsInterrupt(e) == e.ev = "KeyboardInterrupt"
IsResearchEnd(e) == e.ev \in {"returns", "raises"}

\* The lines read so far that are neither blank nor a quit word.
QueryLines == SelectSeq(events, IsQuery)

\* Blank lines and quit words trigger no research call and every other line
\* exactly one: the research calls are the calls for the query lines, in
\* order, the last of which may still be running.
C12_OneCallPerQuery ==
    /\ Len(QueryLines) = Len(researched) + (IF mpc = "interactive_research" THEN 1 ELSE 0)
    /\ \A k \in 1..Len(researched) : researched[k].query = Strip(QueryLines[k].text)

\* A quit word ends the loop with no further read.
C12_QuitEnds ==
    \A k \in 1..Len(events) : IsQuit(events[k]) => (k = Len(events) /\ mpc = "exited")

\* After a blank line, and after a research call that returned or raised,
\* the loop reads the next line.
C12_LoopGoesOn ==
    \A k \in 1..Len(events) :
        (k = Len(events) /\ (IsBlank(events[k]) \/ IsResearchEnd(events[k])))
            => (mpc = "interactive"
                /\ (reads < MaxReads => ENABLED (InteractiveReadLine \/ InteractiveReadRaises)))

\* The loop is left only after a quit word or an interrupt.
C12_LeftOnlyByQuitOrInterrupt ==
    (mpc = "exited") =>
        /\ events # <<>>
        /\ IsQuit(events[Len(events)]) \/ IsInterrupt(events[Len(events)])

\* C12: in interactive mode, for any sequence of input lines, a blank line
\* triggers no research call and the loop reads the next line; a quit word
\* (quit, exit, q in any letter case) ends the loop with no research call and
\* no further read; every other line triggers exactly one research call; an
\* exception raised by that call is caught and the loop reads the next line;
\* the loop is left only after a quit word or an interrupt.
C12_InteractiveLoop ==
    InInteractiveMode =>
        /\ C12_OneCallPerQuery
        /\ C12_QuitEnds
        /\ C12_LoopGoesOn
        /\ C12_LeftOnlyByQuitOrInterrupt

\* What holds of the loop when the input does not end before the first line.
C12_LoopWithInput ==
    InInteractiveMode =>
        /\ C12_OneCallPerQuery
        /\ C12_QuitEnds
        /\ C12_LoopGoesOn
        /\ (events # <<>> /\ events[1].ev # "EOFError") => C12_LeftOnlyByQuitOrInterrupt

----------------------------------------------------------------------------
(* Source and ConflictDetectionAgent                                       *)

\* Source(url, title, snippet, quality); the timestamp, which nothing reads,
\* is left out.
Source(url, title, snippet, quality) ==
    [url |-> url, title |-> title, snippet |-> snippet, quality |-> quality]

positive_indicators ==
    { <<"b", "e", "n", "e", "f", "i", "t">>, <<"a", "d", "v", "a", "n", "t", "a", "g", "e">>, <<"p", "o", "s", "i", "t", "i", "v", "e">>, <<"g", "o", "o", "d">>, <<"b", "e", "t", "t", "e", "r">>, <<"i", "m", "p", "r", "o", "v", "e", "d">> }

negative_indicators ==
    { <<"p", "r", "o", "b", "l", "e", "m">>, <<"d", "i", "s", "a", "d", "v", "a", "n", "t", "a", "g", "e">>, <<"n", "e", "g", "a", "t", "i", "v", "e">>, <<"b", "a", "d">>, <<"w", "o", "r", "s", "e">>, <<"h", "a", "r", "m", "f", "u", "l">> }

\* ConflictDetectionAgent.execute: text
source_text(source) == Lower(source.title \o <<" ">> \o source.snippet)

\* ConflictDetectionAgent.execute: pos_count, the number of positive
\* indicators that occur in the text.
pos_count(source) ==
    Cardinality({w \in positive_indicators : Contains(w, source_text(source))})

\* ConflictDetectionAgent.execute: neg_count
neg_count(source) ==
    Cardinality({w \in negative_indicators : Contains(w, source_text(source))})

\* The conflict message for p positive and n negative sources.
conflict_message(p, n) ==
    <<"C", "o", "n", "f", "l", "i", "c", "t", "i", "n", "g", " ", "v", "i", "e", "w", "p", "o", "i", "n", "t", "s", " ", "d", "e", "t", "e", "c", "t", "e", "d", ":", " ">> \o Str(p) \o <<" ", "s", "o", "u", "r", "c", "e", "s", " ">>
    \o <<"p", "r", "e", "s", "e", "n", "t", " ", "p", "o", "s", "i", "t", "i", "v", "e", " ", "v", "i", "e", "w", "s", " ", "w", "h", "i", "l", "e", " ">> \o Str(n) \o <<" ", "s", "o", "u", "r", "c", "e", "s", " ">>
    \o <<"p", "r", "e", "s", "e", "n", "t", " ", "n", "e", "g", "a", "t", "i", "v", "e", " ", "v", "i", "e", "w", "s", " ", "o", "n", " ", "t", "h", "e", " ", "t", "o", "p", "i", "c", ".">>

\* A plausible slip: a tied source counted as positive (>= for >).
ConflictDetectionAgent_execute_TiesPositive(sources) ==
    LET positive_sources == SelectSeq(sources, LAMBDA x : pos_count(x) >= neg_count(x))
        negative_sources == SelectSeq(sources, LAMBDA x : neg_count(x) > pos_count(x))
    IN  IF positive_sources # <<>> /\ negative_sources # <<>>
        THEN << conflict_message(Len(positive_sources), Len(negative_sources)) >>
        ELSE <<>>

\* ConflictDetectionAgent.execute(sources): the conflicts list.
ConflictDetectionAgent_execute(sources) ==
    LET positive_sources == SelectSeq(sources, LAMBDA x : pos_count(x) > neg_count(x))
        negative_sources == SelectSeq(sources, LAMBDA x : neg_count(x) > pos_count(x))
    IN  IF positive_sources # <<>> /\ negative_sources # <<>>
        THEN << conflict_message(Len(positive_sources), Len(negative_sources)) >>
        ELSE <<>>

----------------------------------------------------------------------------
(* ConflictDetectionAgent.execute applied to every sequence of at most     *)
(* MaxConflictSources of the sources below.                                *)

MaxConflictSources == 3

url_example == <<"h", "t", "t", "p", "s", ":", "/", "/", "a", ".", "i", "o">>

ConflictSources ==
    { Source(url_example, <<"G", "o", "o", "d", " ", "n", "e", "w", "s">>, <<"a", " ", "c", "l", "e", "a", "r", " ", "b", "e", "n", "e", "f", "i", "t">>, MEDIUM),
      Source(url_example, <<"H", "a", "r", "m", "f", "u", "l">>, <<"a", " ", "B", "A", "D", " ", "p", "r", "o", "b", "l", "e", "m">>, MEDIUM),
      Source(url_example, <<"g", "o", "o", "d", " ", "a", "n", "d", " ", "b", "a", "d">>, <<>>, MEDIUM),
      Source(url_example, <<"S", "o", "l", "a", "r">>, <<"p", "o", "w", "e", "r">>, MEDIUM),
      Source(url_example, <<"B", "e", "t", "t", "e", "r", ",", " ", "i", "m", "p", "r", "o", "v", "e", "d">>, <<"n", "o", "t", " ", "w", "o", "r", "s", "e">>, MEDIUM),
      Source(url_example, <<"B", "a", "d", "g", "e">>, <<"g", "o", "o", "d", "s">>, MEDIUM) }

InitConflict ==
    /\ arg \in UNION { [op : {"conflicts"}, sources : [1..n -> ConflictSources]] :
                        n \in 0..MaxConflictSources }
    /\ ret = NoResult
    /\ MainIdle /\ ProvIdle /\ ResIdle

Call_ConflictDetectionAgent_execute ==
    /\ arg.op = "conflicts"
    /\ ret = NoResult
    /\ ret' = <<ConflictDetectionAgent_execute(arg.sources)>>
    /\ UNCHANGED arg
    /\ UNCHANGED <<mainVars, provVars, resVars>>

NextConflict == Call_ConflictDetectionAgent_execute

SpecConflict == InitConflict /\ [][NextConflict]_vars

\* The sources of the argument with more positive than negative indicators.
PositiveIn(sources) == {i \in 1..Len(sources) : pos_count(sources[i]) > neg_count(sources[i])}

\* The sources of the argument with more negative than positive indicators.
NegativeIn(sources) == {i \in 1..Len(sources) : neg_count(sources[i]) > pos_count(sources[i])}

\* C8: ConflictDetectionAgent.execute returns at most one message; with P
\* sources of more positive than negative indicators and N of more negative
\* than positive (tied sources in neither), it returns exactly one message,
\* stating "P sources" positive and "N sources" negative, when P >= 1 and
\* N >= 1, and the empty sequence otherwise.
C8_AtMostOneConflict ==
    (arg.op = "conflicts" /\ ret # NoResult) =>
        LET P == Cardinality(PositiveIn(arg.sources))
            N == Cardinality(NegativeIn(arg.sources))
        IN  /\ Len(Returned) <= 1
            /\ (P >= 1 /\ N >= 1) =>
                /\ Len(Returned) = 1
                /\ Contains(Str(P) \o <<" ", "s", "o", "u", "r", "c", "e", "s", " ", "p", "r", "e", "s", "e", "n", "t", " ", "p", "o", "s", "i", "t", "i", "v", "e", " ", "v", "i", "e", "w", "s">>, Returned[1])
                /\ Contains(Str(N) \o <<" ", "s", "o", "u", "r", "c", "e", "s", " ", "p", "r", "e", "s", "e", "n", "t", " ", "n", "e", "g", "a", "t", "i", "v", "e", " ", "v", "i", "e", "w", "s">>, Returned[1])
            /\ ~(P >= 1 /\ N >= 1) => Returned = <<>>

\* A message has been returned for an argument that holds a tied source
\* beside positive and negative ones.
C8_Witness ==
    /\ arg.op = "conflicts"
    /\ ret # NoResult
    /\ Len(Returned) = 1
    /\ \E i \in 1..Len(arg.sources) :
           /\ pos_count(arg.sources[i]) = neg_count(arg.sources[i])
           /\ pos_count(arg.sources[i]) > 0

----------------------------------------------------------------------------
(* SynthesisAgent                                                          *)

\* The characters the regular expression \w matches (ASCII).
WordChars == (scheme_chars \ {"+", "-", "."}) \cup {"_"}

\* re.findall(r'\b\w+\b', text): the maximal runs of word characters, in order.
RECURSIVE FindWords(_, _)
FindWords(text, from) ==
    LET starts == {i \in from..Len(text) : text[i] \in WordChars}
    IN  IF starts = {} THEN <<>>
        ELSE LET a == CHOOSE i \in starts : \A j \in starts : i <= j
                 ends == {i \in a..Len(text) : text[i] \notin WordChars}
                 b == IF ends = {} THEN Len(text) + 1
                      ELSE CHOOSE i \in ends : \A j \in ends : i <= j
             IN  <<SubSeq(text, a, b - 1)>> \o FindWords(text, b)

stop_words ==
    { <<"t", "h", "e">>, <<"a", "n", "d">>, <<"o", "r">>, <<"b", "u", "t">>, <<"i", "n">>, <<"o", "n">>, <<"a", "t">>, <<"t", "o">>,
      <<"f", "o", "r">>, <<"o", "f">>, <<"w", "i", "t", "h">>, <<"b", "y">>, <<"a">>, <<"a", "n">> }

\* The themes _find_common_themes returns at most.
MaxThemes == 10

\* The themes _extract_insights reports at most.
MaxReportedThemes == 5

\* The longest word _find_common_themes ignores.
ShortWordLen == 3

\* The characters of a snippet the report shows.
SnippetChars == 150

\* The sources the report details per quality group.
MaxDetailed == 5

\* SynthesisAgent._find_common_themes(text): the words that are no stop words
\* and longer than 3 characters, by falling frequency; sorted() is stable, so
\* words of equal frequency stay in the order of their first occurrence.
find_common_themes(text) ==
    LET words == SelectSeq(FindWords(Lower(text), 1),
                           LAMBDA w : w \notin stop_words /\ Len(w) > ShortWordLen)
        keys  == {words[i] : i \in 1..Len(words)}
        \* word_freq
        freq  == [w \in keys |-> Cardinality({i \in 1..Len(words) : words[i] = w})]
        \* the position at which the word entered word_freq
        first == [w \in keys |-> CHOOSE i \in 1..Len(words) :
                        words[i] = w /\ \A j \in 1..(i - 1) : words[j] # w]
        rank  == [w \in keys |-> Cardinality({v \in keys :
                        \/ freq[v] > freq[w]
                        \/ freq[v] = freq[w] /\ first[v] < first[w]})]
        sorted == [r \in 1..Cardinality(keys) |-> CHOOSE w \in keys : rank[w] = r - 1]
    IN  Slice(sorted, 1, MaxThemes)

\* sep.join(strings)
RECURSIVE Join(_, _)
Join(sep, ss) ==
    IF ss = <<>> THEN <<>>
    ELSE IF Len(ss) = 1 THEN ss[1]
    ELSE ss[1] \o sep \o Join(sep, Tail(ss))

\* SynthesisAgent._extract_insights(sources)
extract_insights(sources) ==
    LET high_quality == SelectSeq(sources, LAMBDA x : x.quality = HIGH)
        medium_quality == SelectSeq(sources, LAMBDA x : x.quality = MEDIUM)
        all_text == Lower(Join(<<" ">>, [i \in 1..Len(sources) |->
                        sources[i].title \o <<" ">> \o sources[i].snippet]))
        common_words == find_common_themes(all_text)
    IN  (IF high_quality # <<>>
            THEN << <<"H", "i", "g", "h", "-", "q", "u", "a", "l", "i", "t", "y", " ", "s", "o", "u", "r", "c", "e", "s", " ", "(">> \o Str(Len(high_quality))
                    \o <<")", " ", "p", "r", "o", "v", "i", "d", "e", " ", "a", "u", "t", "h", "o", "r", "i", "t", "a", "t", "i", "v", "e", " ", "i", "n", "f", "o", "r", "m", "a", "t", "i", "o", "n">> >>
            ELSE <<>>)
        \o (IF medium_quality # <<>>
            THEN << <<"A", "d", "d", "i", "t", "i", "o", "n", "a", "l", " ", "c", "o", "n", "t", "e", "x", "t", " ", "f", "r", "o", "m", " ">> \o Str(Len(medium_quality))
                    \o <<" ", "m", "e", "d", "i", "u", "m", "-", "q", "u", "a", "l", "i", "t", "y", " ", "s", "o", "u", "r", "c", "e", "s">> >>
            ELSE <<>>)
        \o (IF common_words # <<>>
            THEN << <<"K", "e", "y", " ", "t", "h", "e", "m", "e", "s", " ", "i", "d", "e", "n", "t", "i", "f", "i", "e", "d", ":", " ">>
                    \o Join(<<",", " ">>, Slice(common_words, 1, MaxReportedThemes)) >>
            ELSE <<>>)

\* A plausible slip: a URL that already has a number keeps it.
DictSetDefault(dict, k, v) ==
    [x \in (DOMAIN dict) \cup {k} |-> IF x \in DOMAIN dict THEN dict[x] ELSE v]

\* d[k] = v on a dict d, modelled as a function.
DictSet(dict, k, v) ==
    [x \in (DOMAIN dict) \cup {k} |-> IF x = k THEN v ELSE dict[x]]

\* {source.url: i+1 for i, source in enumerate(all_sources)}, built entry by
\* entry from position i on.
RECURSIVE citation_map(_, _, _)
citation_map(all_sources, i, dict) ==
    IF i > Len(all_sources) THEN dict
    ELSE citation_map(all_sources, i + 1, DictSet(dict, all_sources[i].url, i))

\* The empty dict.
EmptyDict == [x \in {} |-> 0]

\* quality.value.title()
quality_title(quality) ==
    CASE quality = HIGH -> <<"H", "i", "g", "h">>
      [] quality = MEDIUM -> <<"M", "e", "d", "i", "u", "m">>
      [] quality = LOW -> <<"L", "o", "w">>

\* The warning glyph that starts a conflict line, as one character.
WarningSign == <<"WARNING SIGN">>

\* datetime.now().strftime('%Y-%m-%d %H:%M:%S'): one instant stands for all.
Timestamp == <<"2", "0", "2", "5", "-", "0", "1", "-", "0", "1", " ", "0", "0", ":", "0", "0", ":", "0", "0">>

\* _generate_report: the numbered insights, from number i on.
RECURSIVE insight_lines(_, _)
insight_lines(insights, i) ==
    IF i > Len(insights) THEN <<>>
    ELSE Str(i) \o <<".", " ">> \o insights[i] \o <<"\n">> \o insight_lines(insights, i + 1)

\* _generate_report: the conflict lines.
RECURSIVE conflict_lines(_)
conflict_lines(conflicts) ==
    IF conflicts = <<>> THEN <<>>
    ELSE WarningSign \o <<" ">> \o Head(conflicts) \o <<"\n">>
         \o conflict_lines(Tail(conflicts))

\* _generate_report: the entries of one quality group.
RECURSIVE detail_lines(_, _)
detail_lines(quality_sources, citations) ==
    IF quality_sources = <<>> THEN <<>>
    ELSE LET source == Head(quality_sources)
         IN  <<"-", " ">> \o source.title \o <<" ", "[">> \o Str(citations[source.url]) \o <<"]", "\n">>
             \o <<" ", " ">> \o Slice(source.snippet, 1, SnippetChars) \o <<".", ".", ".", "\n", "\n">>
             \o detail_lines(Tail(quality_sources), citations)

\* _generate_report: one quality group of the detailed analysis.
detail_group(quality, sources, citations) ==
    LET quality_sources == SelectSeq(sources, LAMBDA x : x.quality = quality)
    IN  IF quality_sources = <<>> THEN <<>>
        ELSE <<"\n", "#", "#", "#", " ">> \o quality_title(quality) \o <<" ", "Q", "u", "a", "l", "i", "t", "y", " ", "S", "o", "u", "r", "c", "e", "s", "\n">>
             \o detail_lines(Slice(quality_sources, 1, MaxDetailed), citations)

\* _generate_report: the references, by rising citation number from num on;
\* each entry shows the title of the first source with that URL.
RECURSIVE reference_lines(_, _, _)
reference_lines(sources, citations, num) ==
    IF num > Len(sources) THEN <<>>
    ELSE LET urls == {u \in DOMAIN citations : citations[u] = num}
         IN  (IF urls = {} THEN <<>>
              ELSE LET url == CHOOSE u \in urls : TRUE
                       first == CHOOSE i \in 1..Len(sources) :
                                   /\ sources[i].url = url
                                   /\ \A j \in 1..(i - 1) : sources[j].url # url
                   IN  <<"[">> \o Str(num) \o <<"]", " ">> \o sources[first].title
                       \o <<" ", "-", " ">> \o url \o <<"\n">>)
             \o reference_lines(sources, citations, num + 1)

\* SynthesisAgent._generate_report(query, insights, sources, conflicts, citations)
generate_report(query, insights, sources, conflicts, citations) ==
    <<"#", " ", "R", "e", "s", "e", "a", "r", "c", "h", " ", "R", "e", "p", "o", "r", "t", ":", " ">> \o query
    \o <<"\n", "\n", "#", "#", " ", "E", "x", "e", "c", "u", "t", "i", "v", "e", " ", "S", "u", "m", "m", "a", "r", "y", "\n">>
    \o <<"T", "h", "i", "s", " ", "r", "e", "p", "o", "r", "t", " ", "p", "r", "e", "s", "e", "n", "t", "s", " ", "f", "i", "n", "d", "i", "n", "g", "s", " ", "f", "r", "o", "m", " ", "a", " ", "c", "o", "m", "p", "r", "e", "h", "e", "n", "s", "i", "v", "e", " ", "a", "n", "a", "l", "y", "s", "i", "s", " ", "o", "f", " ">>
    \o Str(Len(sources)) \o <<" ", "s", "o", "u", "r", "c", "e", "s", " ", "r", "e", "g", "a", "r", "d", "i", "n", "g", " ", "\"">> \o query
    \o <<"\"", ".", " ", "T", "h", "e", " ", "r", "e", "s", "e", "a", "r", "c", "h", " ", "w", "a", "s", " ", "c", "o", "n", "d", "u", "c", "t", "e", "d", " ", "u", "s", "i", "n", "g", " ", "a", " ", "m", "u", "l", "t", "i", "-", "a", "g", "e", "n", "t", " ", "s", "y", "s", "t", "e", "m", " ", "t", "h", "a", "t", " ">>
    \o <<"e", "v", "a", "l", "u", "a", "t", "e", "d", " ", "s", "o", "u", "r", "c", "e", " ", "q", "u", "a", "l", "i", "t", "y", ",", " ", "d", "e", "t", "e", "c", "t", "e", "d", " ", "c", "o", "n", "f", "l", "i", "c", "t", "s", ",", " ", "a", "n", "d", " ", "s", "y", "n", "t", "h", "e", "s", "i", "z", "e", "d", " ", "k", "e", "y", " ", "i", "n", "s", "i", "g", "h", "t", "s", ".">>
    \o <<"\n", "\n", "#", "#", " ", "K", "e", "y", " ", "F", "i", "n", "d", "i", "n", "g", "s", "\n">>
    \o insight_lines(insights, 1)
    \o (IF conflicts # <<>>
        THEN <<"\n", "#", "#", " ", "C", "o", "n", "f", "l", "i", "c", "t", "i", "n", "g", " ", "I", "n", "f", "o", "r", "m", "a", "t", "i", "o", "n", "\n">> \o conflict_lines(conflicts)
        ELSE <<>>)
    \o <<"\n", "#", "#", " ", "S", "o", "u", "r", "c", "e", " ", "Q", "u", "a", "l", "i", "t", "y", " ", "D", "i", "s", "t", "r", "i", "b", "u", "t", "i", "o", "n", "\n">>
    \o <<"-", " ", "*", "*", "H", "i", "g", "h", " ", "Q", "u", "a", "l", "i", "t", "y", " ", "S", "o", "u", "r", "c", "e", "s", "*", "*", ":", " ">>
    \o Str(Len(SelectSeq(sources, LAMBDA x : x.quality = HIGH)))
    \o <<" ", "(", ".", "e", "d", "u", ",", " ", ".", "g", "o", "v", ",", " ", "m", "a", "j", "o", "r", " ", "n", "e", "w", "s", ")", "\n">>
    \o <<"-", " ", "*", "*", "M", "e", "d", "i", "u", "m", " ", "Q", "u", "a", "l", "i", "t", "y", " ", "S", "o", "u", "r", "c", "e", "s", "*", "*", ":", " ">>
    \o Str(Len(SelectSeq(sources, LAMBDA x : x.quality = MEDIUM)))
    \o <<" ", "(", "W", "i", "k", "i", "p", "e", "d", "i", "a", ",", " ", "i", "n", "d", "u", "s", "t", "r", "y", " ", "s", "i", "t", "e", "s", ")", "\n">>
    \o <<"-", " ", "*", "*", "L", "o", "w", " ", "Q", "u", "a", "l", "i", "t", "y", " ", "S", "o", "u", "r", "c", "e", "s", "*", "*", ":", " ">>
    \o Str(Len(SelectSeq(sources, LAMBDA x : x.quality = LOW)))
    \o <<" ", "(", "b", "l", "o", "g", "s", ",", " ", "f", "o", "r", "u", "m", "s", ")", "\n">>
    \o <<"\n", "#", "#", " ", "D", "e", "t", "a", "i", "l", "e", "d", " ", "A", "n", "a", "l", "y", "s", "i", "s", "\n">>
    \o detail_group(HIGH, sources, citations)
    \o detail_group(MEDIUM, sources, citations)
    \o <<"\n", "#", "#", " ", "R", "e", "f", "e", "r", "e", "n", "c", "e", "s", "\n">>
    \o reference_lines(sources, citations, 1)
    \o <<"\n", "-", "-", "-", "\n", "*", "R", "e", "p", "o", "r", "t", " ", "g", "e", "n", "e", "r", "a", "t", "e", "d", " ", "o", "n", " ">> \o Timestamp \o <<"*">>

\* SynthesisAgent.execute(research_plan, all_sources, conflicts): the
\* ResearchFindings.
SynthesisAgent_execute(research_plan, all_sources, conflicts) ==
    LET insights == extract_insights(all_sources)
        citations == citation_map(all_sources, 1, EmptyDict)
        report == generate_report(research_plan.main_query, insights,
                                  all_sources, conflicts, citations)
    IN  [main_query |-> research_plan.main_query,
         sources |-> all_sources,
         key_insights |-> insights,
         conflicts |-> conflicts,
         citations |-> citations,
         report |-> report]

----------------------------------------------------------------------------
(* SynthesisAgent.execute applied to every sequence of at most             *)
(* MaxSynthSources of the sources below, each with the quality phase 3     *)
(* gives it, and to no, one or two conflicts.                              *)

MaxSynthSources == 3

url_blog == <<"h", "t", "t", "p", "s", ":", "/", "/", "m", "y", "b", "l", "o", "g", ".", "c", "o", "m", "/", "p", "o", "s", "t">>

\* A source as it reaches synthesis: its quality is assess_quality(url).
CheckedSource(url, title, snippet) == Source(url, title, snippet, assess_quality(url))

SynthSources ==
    { CheckedSource(url_nature, <<"S", "o", "l", "a", "r", " ", "s", "t", "u", "d", "y">>, <<"S", "o", "l", "a", "r", " ", "p", "a", "n", "e", "l", "s", " ", "i", "m", "p", "r", "o", "v", "e", "d">>),
      CheckedSource(url_nature, <<"S", "o", "l", "a", "r", " ", "s", "t", "u", "d", "y", ",", " ", "p", "a", "r", "t", " ", "t", "w", "o">>, <<"p", "a", "n", "e", "l", "s", " ", "a", "n", "d", " ", "s", "t", "o", "r", "a", "g", "e">>),
      CheckedSource(url_randomsite, <<"N", "o", "t", "e", "s">>, <<"I", "n", "t", "r", "o", "\n", "#", "#", " ", "S", "u", "m", "m", "a", "r", "y", "\n", "S", "o", "l", "a", "r", " ", "i", "s", " ", "g", "o", "o", "d">>),
      CheckedSource(url_randomsite, <<"W", "i", "n", "d">>, <<"w", "i", "n", "d", " ", "p", "o", "w", "e", "r">>),
      CheckedSource(url_blog, <<"M", "y", " ", "v", "i", "e", "w">>, <<"b", "a", "d", " ", "i", "d", "e", "a">>) }

SynthConflicts ==
    { <<>>,
      << conflict_message(1, 1) >>,
      << conflict_message(1, 1), <<"a", " ", "s", "e", "c", "o", "n", "d", " ", "c", "o", "n", "f", "l", "i", "c", "t">> >> }

SynthPlan == PlanningAgent_execute(<<"s", "o", "l", "a", "r", " ", "p", "o", "w", "e", "r">>)

InitSynth ==
    /\ arg \in UNION { [op : {"synthesize"}, research_plan : {SynthPlan},
                        all_sources : [1..n -> SynthSources],
                        conflicts : SynthConflicts] : n \in 0..MaxSynthSources }
    /\ ret = NoResult
    /\ MainIdle /\ ProvIdle /\ ResIdle

Call_SynthesisAgent_execute ==
    /\ arg.op = "synthesize"
    /\ ret = NoResult
    /\ ret' = <<SynthesisAgent_execute(arg.research_plan, arg.all_sources, arg.conflicts)>>
    /\ UNCHANGED arg
    /\ UNCHANGED <<mainVars, provVars, resVars>>

NextSynth == Call_SynthesisAgent_execute

SpecSynth == InitSynth /\ [][NextSynth]_vars

Synthesized == arg.op = "synthesize" /\ ret # NoResult

\* C7: every source URL of the aggregate has one entry in the citation map,
\* a 1-based position in the aggregate: the position of the URL's last
\* occurrence, which is i for the i-th source when all URLs are distinct;
\* numbers are not compacted, and findings.sources holds every occurrence.
C7_CitationNumbers ==
    Synthesized =>
        LET all_sources == arg.all_sources
            citations == Returned.citations
            n == Len(all_sources)
        IN  /\ Returned.sources = all_sources
            /\ DOMAIN citations = {all_sources[i].url : i \in 1..n}
            /\ \A i \in 1..n :
                LET num == citations[all_sources[i].url]
                IN  /\ num \in i..n
                    /\ all_sources[num].url = all_sources[i].url
                    /\ \A j \in (num + 1)..n : all_sources[j].url # all_sources[i].url
            /\ (\A i, j \in 1..n : all_sources[i].url = all_sources[j].url => i = j)
                => \A i \in 1..n : citations[all_sources[i].url] = i

\* Findings for an aggregate in which a URL occurs twice, with another URL
\* between the two occurrences.
C7_Witness ==
    /\ Synthesized
    /\ Len(arg.all_sources) = 3
    /\ arg.all_sources[1].url = arg.all_sources[3].url
    /\ arg.all_sources[1].url # arg.all_sources[2].url
    /\ Returned.citations[arg.all_sources[1].url] = 3

\* The level-2 headings of a Markdown text: its lines that start with "## ",
\* without that mark, in order.
Headings(text) ==
    LET lines == Split(text, <<"\n">>)
        marked == SelectSeq(lines, LAMBDA l : StartsAt(<<"#", "#", " ">>, l, 1))
    IN  [i \in 1..Len(marked) |-> Slice(marked[i], 4, Len(marked[i]))]

ExpectedHeadings(conflicts) ==
    << <<"E", "x", "e", "c", "u", "t", "i", "v", "e", " ", "S", "u", "m", "m", "a", "r", "y">>, <<"K", "e", "y", " ", "F", "i", "n", "d", "i", "n", "g", "s">> >>
    \o (IF conflicts # <<>> THEN << <<"C", "o", "n", "f", "l", "i", "c", "t", "i", "n", "g", " ", "I", "n", "f", "o", "r", "m", "a", "t", "i", "o", "n">> >> ELSE <<>>)
    \o << <<"S", "o", "u", "r", "c", "e", " ", "Q", "u", "a", "l", "i", "t", "y", " ", "D", "i", "s", "t", "r", "i", "b", "u", "t", "i", "o", "n">>, <<"D", "e", "t", "a", "i", "l", "e", "d", " ", "A", "n", "a", "l", "y", "s", "i", "s">>, <<"R", "e", "f", "e", "r", "e", "n", "c", "e", "s">> >>

\* C9: for every input the level-2 headings of the report are Executive
\* Summary, Key Findings, [Conflicting Information], Source Quality
\* Distribution, Detailed Analysis, References in that order, Conflicting
\* Information present exactly when the conflicts are non-empty, right after
\* Key Findings.
C9_ReportHeadings ==
    Synthesized => Headings(Returned.report) = ExpectedHeadings(arg.conflicts)

\* The texts the report shows for a source: its title and the start of its
\* snippet.
ShownTexts(source) == {source.title, Slice(source.snippet, 1, SnippetChars)}

\* C9 for inputs whose shown texts hold no line break.
SingleLineHeadings ==
    (Synthesized /\ \A i \in 1..Len(arg.all_sources) :
                        \A t \in ShownTexts(arg.all_sources[i]) : ~Contains(<<"\n">>, t))
        => Headings(Returned.report) = ExpectedHeadings(arg.conflicts)

----------------------------------------------------------------------------
(* search_providers.py: one call of search on each of the three providers. *)
(* The network and the local library are the environment: what they answer *)
(* is chosen freely at each step, within the wire contract (a JSON object  *)
(* that has "results" has an array there).  Interrupts of the process      *)
(* (KeyboardInterrupt, cancellation) are no Exceptions and no failures of  *)
(* the call; they are not modelled here.                                   *)

\* dict.get(key, default) on a dict modelled as a function.
Get(dict, key, default) == IF key \in DOMAIN dict THEN dict[key] ELSE default

\* SearchAgent.execute: num_results=10
NumResults == 10

\* The results one answer of the network or of the local library holds at most.
MaxProviderResults == 2

Providers == {"TavilySearchProvider", "DuckDuckGoSearchProvider", "SearchAPIProvider"}

ProviderQueries == { <<"s", "o", "l", "a", "r", " ", "p", "o", "w", "e", "r">>, <<"A", "d", "v", "a", "n", "t", "a", "g", "e", "s", " ", "o", "f", " ", "s", "o", "l", "a", "r">>, <<"w", "i", "n", "d">> }

HttpStatuses == {200, 404, 500}

\* Raw results of the Tavily API: url, title and content, some absent.
TavilyResults ==
    { [url |-> url_nature, title |-> <<"S", "o", "l", "a", "r", " ", "s", "t", "u", "d", "y">>, content |-> <<"S", "o", "l", "a", "r", " ", "p", "a", "n", "e", "l", "s", " ", "i", "m", "p", "r", "o", "v", "e", "d">>],
      [url |-> url_blog, content |-> <<"b", "a", "d", " ", "i", "d", "e", "a">>] }

\* The JSON bodies of a 200 answer: not JSON at all, a JSON value that is no
\* object, or an object with or without "results".
JsonBodies ==
    { [kind |-> "invalid"], [kind |-> "not_object"],
      [kind |-> "object", data |-> [answer |-> <<"y", "e", "s">>]] }
    \cup { [kind |-> "object", data |-> [answer |-> <<"y", "e", "s">>, results |-> r]] :
             r \in UNION { [1..n -> TavilyResults] : n \in 0..MaxProviderResults } }

\* Results of the local library: href, title and body, some absent.
LibraryResults ==
    { [href |-> url_nature, title |-> <<"S", "o", "l", "a", "r", " ", "s", "t", "u", "d", "y">>, body |-> <<"S", "o", "l", "a", "r", " ", "p", "a", "n", "e", "l", "s", " ", "i", "m", "p", "r", "o", "v", "e", "d">>],
      [href |-> url_blog] }

\* The call returns value.
Return(value) == [kind |-> "return", value |-> value]

\* The call raises.
Raise(exc) == [kind |-> "raise", exc |-> exc]

InitProvider ==
    /\ PureIdle /\ MainIdle /\ ResIdle
    /\ p_call \in [provider : Providers, query : ProviderQueries, num_results : {NumResults}]
    /\ p_pc = "start"
    /\ p_response = <<>>
    /\ p_results = <<>>
    /\ p_acquired = FALSE
    /\ p_failure = <<>>
    /\ p_log = <<>>
    /\ p_out = <<>>

\* TavilySearchProvider.search: the session is opened and the request posted;
\* either raises (a transport failure) or gives a response.
TavilyPost ==
    /\ p_call.provider = "TavilySearchProvider"
    /\ p_pc = "start"
    /\ \/ /\ p_failure' = Append(p_failure, "exception")
          /\ p_pc' = "except"
          /\ UNCHANGED p_response
       \/ \E status \in HttpStatuses :
          /\ p_response' = <<[status |-> status]>>
          /\ p_pc' = "status"
          /\ UNCHANGED p_failure
    /\ UNCHANGED <<p_call, p_results, p_acquired, p_log, p_out>>
    /\ UNCHANGED <<pureVars, mainVars, resVars>>

\* TavilySearchProvider.search: if response.status == 200 ... else: log the
\* error and return [].
TavilyCheckStatus ==
    /\ p_call.provider = "TavilySearchProvider"
    /\ p_pc = "status"
    /\ IF p_response[1].status = 200
       THEN /\ p_pc' = "json"
            /\ UNCHANGED <<p_failure, p_log, p_out>>
       ELSE /\ p_failure' = Append(p_failure, "status")
            /\ p_log' = Append(p_log, "error")
            /\ p_out' = <<Return(<<>>)>>
            /\ p_pc' = "done"
    /\ UNCHANGED <<p_call, p_response, p_results, p_acquired>>
    /\ UNCHANGED <<pureVars, mainVars, resVars>>

\* TavilySearchProvider.search: data = await response.json();
\* return data.get("results", []).  json() raises on a body that is no JSON,
\* and data.get raises AttributeError on a JSON value that is no object.
TavilyReadJson ==
    /\ p_call.provider = "TavilySearchProvider"
    /\ p_pc = "json"
    /\ \E body \in JsonBodies :
        IF body.kind = "object"
        THEN /\ p_out' = <<Return(Get(body.data, "results", <<>>))>>
             /\ p_pc' = "done"
             /\ UNCHANGED p_failure
        ELSE /\ p_failure' = Append(p_failure, "exception")
             /\ p_pc' = "except"
             /\ UNCHANGED p_out
    /\ UNCHANGED <<p_call, p_response, p_results, p_acquired, p_log>>
    /\ UNCHANGED <<pureVars, mainVars, resVars>>

\* A plausible slip: the handler logs and raises again.
TavilyExcept_Reraise ==
    /\ p_call.provider = "TavilySearchProvider"
    /\ p_pc = "except"
    /\ p_log' = Append(p_log, "error")
    /\ p_out' = <<Raise("Exception")>>
    /\ p_pc' = "done"
    /\ UNCHANGED <<p_call, p_response, p_results, p_acquired, p_failure>>
    /\ UNCHANGED <<pureVars, mainVars, resVars>>

\* TavilySearchProvider.search: except Exception: log the error, return [].
TavilyExcept ==
    /\ p_call.provider = "TavilySearchProvider"
    /\ p_pc = "except"
    /\ p_log' = Append(p_log, "error")
    /\ p_out' = <<Return(<<>>)>>
    /\ p_pc' = "done"
    /\ UNCHANGED <<p_call, p_response, p_results, p_acquired, p_failure>>
    /\ UNCHANGED <<pureVars, mainVars, resVars>>

\* DuckDuckGoSearchProvider.search: from duckduckgo_search import DDGS;
\* results = []
DdgImport ==
    /\ p_call.provider = "DuckDuckGoSearchProvider"
    /\ p_pc = "start"
    /\ \E installed \in BOOLEAN :
        IF installed
        THEN /\ p_pc' = "with"
             /\ UNCHANGED p_failure
        ELSE /\ p_failure' = Append(p_failure, "import")
             /\ p_pc' = "import_error"
    /\ UNCHANGED <<p_call, p_response, p_results, p_acquired, p_log, p_out>>
    /\ UNCHANGED <<pureVars, mainVars, resVars>>

\* DuckDuckGoSearchProvider.search: except ImportError: log the warning,
\* return [].
DdgImportError ==
    /\ p_call.provider = "DuckDuckGoSearchProvider"
    /\ p_pc = "import_error"
    /\ p_log' = Append(p_log, "warning")
    /\ p_out' = <<Return(<<>>)>>
    /\ p_pc' = "done"
    /\ UNCHANGED <<p_call, p_response, p_results, p_acquired, p_failure>>
    /\ UNCHANGED <<pureVars, mainVars, resVars>>

\* DuckDuckGoSearchProvider.search: with DDGS() as ddgs: the library is
\* acquired, or raises.
DdgEnter ==
    /\ p_call.provider = "DuckDuckGoSearchProvider"
    /\ p_pc = "with"
    /\ \/ /\ p_acquired' = TRUE
          /\ p_pc' = "iterate"
          /\ UNCHANGED p_failure
       \/ /\ p_failure' = Append(p_failure, "exception")
          /\ p_pc' = "except"
          /\ UNCHANGED p_acquired
    /\ UNCHANGED <<p_call, p_response, p_results, p_log, p_out>>
    /\ UNCHANGED <<pureVars, mainVars, resVars>>

\* DuckDuckGoSearchProvider.search: one turn of the loop over
\* ddgs.text(query, max_results=num_results): the library gives one more
\* result, which is appended in the url/title/content shape, or raises, or
\* is exhausted; leaving the with block releases the library.
DdgNext ==
    /\ p_call.provider = "DuckDuckGoSearchProvider"
    /\ p_pc = "iterate"
    /\ \/ /\ Len(p_results) < p_call.num_results
          /\ Len(p_results) < MaxProviderResults
          /\ \E result \in LibraryResults :
                p_results' = Append(p_results,
                    [url |-> Get(result, "href", <<>>),
                     title |-> Get(result, "title", <<>>),
                     content |-> Get(result, "body", <<>>)])
          /\ UNCHANGED <<p_pc, p_acquired, p_failure, p_out>>
       \/ /\ p_failure' = Append(p_failure, "exception")
          /\ p_acquired' = FALSE
          /\ p_pc' = "except"
          /\ UNCHANGED <<p_results, p_out>>
       \/ /\ p_acquired' = FALSE
          /\ p_out' = <<Return(p_results)>>
          /\ p_pc' = "done"
          /\ UNCHANGED <<p_results, p_failure>>
    /\ UNCHANGED <<p_call, p_response, p_log>>
    /\ UNCHANGED <<pureVars, mainVars, resVars>>

\* DuckDuckGoSearchProvider.search: except Exception: log the error,
\* return [].
DdgExcept ==
    /\ p_call.provider = "DuckDuckGoSearchProvider"
    /\ p_pc = "except"
    /\ p_log' = Append(p_log, "error")
    /\ p_out' = <<Return(<<>>)>>
    /\ p_pc' = "done"
    /\ UNCHANGED <<p_call, p_response, p_results, p_acquired, p_failure>>
    /\ UNCHANGED <<pureVars, mainVars, resVars>>

\* SearchAPIProvider.search: log the warning, return [].
SearchApiSearch ==
    /\ p_call.provider = "SearchAPIProvider"
    /\ p_pc = "start"
    /\ p_log' = Append(p_log, "warning")
    /\ p_out' = <<Return(<<>>)>>
    /\ p_pc' = "done"
    /\ UNCHANGED <<p_call, p_response, p_results, p_acquired, p_failure>>
    /\ UNCHANGED <<pureVars, mainVars, resVars>>

NextProvider ==
    \/ TavilyPost
    \/ TavilyCheckStatus
    \/ TavilyReadJson
    \/ TavilyExcept
    \/ DdgImport
    \/ DdgImportError
    \/ DdgEnter
    \/ DdgNext
    \/ DdgExcept
    \/ SearchApiSearch

SpecProvider == InitProvider /\ [][NextProvider]_vars

\* C10: a call of search on any of the three providers never stops before
\* it ends, ends by returning a sequence and never by raising, and returns
\* the empty sequence when a failure was met in it (a status other than 200,
\* an exception of the transport, of the JSON decoding or of the library,
\* the library not installed).
C10_SearchNeverRaises ==
    /\ (p_pc # "done") => ENABLED NextProvider
    /\ (p_pc = "done") => p_out # <<>>
    /\ (p_out # <<>>) =>
        /\ p_out[1].kind = "return"
        /\ DOMAIN p_out[1].value = 1..Len(p_out[1].value)
        /\ (p_failure # <<>>) => p_out[1].value = <<>>

\* A Tavily call has ended after a 200 answer whose body raised.
C10_Witness ==
    /\ p_call.provider = "TavilySearchProvider"
    /\ p_out # <<>>
    /\ p_response # <<>> /\ p_response[1].status = 200
    /\ p_failure = <<"exception">>
    /\ p_log = <<"error">>

----------------------------------------------------------------------------
(* SearchAgent.execute and DeepResearchSystem.research.  The coroutines of *)
(* phase 2 run on one event loop: asyncio.gather starts them in list order *)
(* and each runs until it awaits its provider; the provider calls then end *)
(* in any order.  What the provider does for each task is fixed in the     *)
(* initial state.                                                          *)

\* The results one provider call returns at most.
MaxResults == 2

\* The results the provider calls of one run return at most, together.
MaxTotalResults == 3

\* The raw results a provider returns: url, title and content, some absent.
RawResults ==
    { [url |-> url_nature, title |-> <<"S", "o", "l", "a", "r", " ", "s", "t", "u", "d", "y">>, content |-> <<"S", "o", "l", "a", "r", " ", "p", "a", "n", "e", "l", "s", " ", "i", "m", "p", "r", "o", "v", "e", "d">>],
      [url |-> url_wikipedia, content |-> <<"b", "a", "d", " ", "i", "d", "e", "a">>] }

\* What a provider call does: it returns a sequence of raw results, or the
\* coroutine raises (in the provider, or converting a malformed result), or
\* the call never ends (a peer that never answers: no timeout is set).
Responses ==
    { [kind |-> "raises"], [kind |-> "hangs"] }
    \cup { [kind |-> "results", results |-> r] :
             r \in UNION { [1..n -> RawResults] : n \in 0..MaxResults } }

ResearchQueries == { <<"s", "o", "l", "a", "r", " ", "p", "r", "o", "s", " ", "a", "n", "d", " ", "c", "o", "n", "s">>, <<"s", "o", "l", "a", "r">> }

\* The number of raw results in the responses rs.
RECURSIVE TotalResults(_)
TotalResults(rs) ==
    IF rs = <<>> THEN 0
    ELSE (IF Head(rs).kind = "results" THEN Len(Head(rs).results) ELSE 0)
         + TotalResults(Tail(rs))

\* SearchAgent.execute: the Source built from one raw result.
to_source(result) ==
    Source(Get(result, "url", <<>>), Get(result, "title", <<>>),
           Get(result, "content", <<>>), assess_quality(Get(result, "url", <<>>)))

\* SearchAgent.execute(task), when the provider returned results: the task
\* with its results set and completed = True.
SearchAgent_execute(task, results) ==
    [task EXCEPT !.results = [k \in 1..Len(results) |-> to_source(results[k])],
                 !.completed = TRUE]

\* A plausible slip: the re-check made by a checker that is configured
\* otherwise than the one SearchAgent holds (medium indicators go first).
SourceCheckerAgent_execute_MediumFirst(sources) ==
    [k \in 1..Len(sources) |->
        [sources[k] EXCEPT !.quality = assess_quality_MediumFirst(sources[k].url)]]

\* SourceCheckerAgent.execute(sources): every source's quality assessed again.
SourceCheckerAgent_execute(sources) ==
    [k \in 1..Len(sources) |->
        [sources[k] EXCEPT !.quality = assess_quality(sources[k].url)]]

\* research: asyncio.gather(*tasks, return_exceptions=True)
ReturnExceptions_False == FALSE

ReturnExceptions == TRUE

\* A plausible slip: results taken in completion order (as_completed).
GatherSlot_ByCompletion(i, order) == Len(order) + 1

\* asyncio.gather: the slot of the result list that the i-th awaitable's
\* outcome goes to, whatever ended before it.
GatherSlot(i, order) == i

\* research: the sources of the outcomes that are ResearchTasks, in list order.
RECURSIVE collect_sources(_)
collect_sources(outcomes) ==
    IF outcomes = <<>> THEN <<>>
    ELSE (IF Head(outcomes).kind = "ResearchTask" THEN Head(outcomes).task.results
          ELSE <<>>)
         \o collect_sources(Tail(outcomes))

InitResearch ==
    /\ PureIdle /\ MainIdle /\ ProvIdle
    /\ r_query \in ResearchQueries
    /\ responses \in [1..Len(create_research_tasks(r_query)) -> Responses]
    /\ TotalResults(responses) <= MaxTotalResults
    /\ r_pc = "phase1"
    /\ r_plan = <<>>
    /\ coroutines = <<>>
    /\ gather_results = <<>>
    /\ completion_order = <<>>
    /\ completed_tasks = <<>>
    /\ r_all_sources = <<>>
    /\ r_conflicts = <<>>
    /\ findings = <<>>

\* research, phase 1: research_plan = await self.planning_agent.execute(query)
Phase1Planning ==
    /\ r_pc = "phase1"
    /\ r_plan' = <<PlanningAgent_execute(r_query)>>
    /\ r_pc' = "create"
    /\ UNCHANGED <<r_query, responses, coroutines, gather_results, completion_order,
                   completed_tasks, r_all_sources, r_conflicts, findings>>
    /\ UNCHANGED <<pureVars, mainVars, provVars>>

\* research, phase 2: the loop that creates one coroutine per task (none
\* runs yet), and the call of gather.
CreateCoroutines ==
    /\ r_pc = "create"
    /\ coroutines' = [i \in 1..Len(r_plan[1].tasks) |-> "created"]
    /\ gather_results' = [i \in 1..Len(r_plan[1].tasks) |-> <<>>]
    /\ r_pc' = "gather"
    /\ UNCHANGED <<r_query, responses, r_plan, completion_order, completed_tasks,
                   r_all_sources, r_conflicts, findings>>
    /\ UNCHANGED <<pureVars, mainVars, provVars>>

\* A plausible slip: the executions awaited one by one in the loop, so that
\* one starts only when those before it have ended.
StartSearch_AfterPrevious(i) ==
    /\ r_pc = "gather"
    /\ coroutines[i] = "created"
    /\ \A j \in 1..(i - 1) : coroutines[j] \in {"returned", "raised"}
    /\ coroutines' = [coroutines EXCEPT ![i] = "searching"]
    /\ UNCHANGED <<r_query, responses, r_pc, r_plan, gather_results, completion_order,
                   completed_tasks, r_all_sources, r_conflicts, findings>>
    /\ UNCHANGED <<pureVars, mainVars, provVars>>

\* A plausible slip: the task marked completed before the provider is awaited.
StartSearch_MarksEarly(i) ==
    /\ r_pc = "gather"
    /\ coroutines[i] = "created"
    /\ \A j \in 1..(i - 1) : coroutines[j] # "created"
    /\ coroutines' = [coroutines EXCEPT ![i] = "searching"]
    /\ r_plan' = <<[r_plan[1] EXCEPT !.tasks[i].completed = TRUE]>>
    /\ UNCHANGED <<r_query, responses, r_pc, gather_results, completion_order,
                   completed_tasks, r_all_sources, r_conflicts, findings>>
    /\ UNCHANGED <<pureVars, mainVars, provVars>>

\* SearchAgent.execute(task) starts and runs up to its await of
\* search_provider.search; the event loop starts the coroutines in list order.
StartSearch(i) ==
    /\ r_pc = "gather"
    /\ coroutines[i] = "created"
    /\ \A j \in 1..(i - 1) : coroutines[j] # "created"
    /\ coroutines' = [coroutines EXCEPT ![i] = "searching"]
    /\ UNCHANGED <<r_query, responses, r_pc, r_plan, gather_results, completion_order,
                   completed_tasks, r_all_sources, r_conflicts, findings>>
    /\ UNCHANGED <<pureVars, mainVars, provVars>>

\* SearchAgent.execute(task) ends: it returns the task, with its results and
\* completed set, or raises and leaves the task as it was.  gather keeps the
\* outcome; without return_exceptions the first exception would leave
\* research at once.
FinishSearch(i) ==
    /\ r_pc = "gather"
    /\ coroutines[i] = "searching"
    /\ responses[i].kind # "hangs"
    /\ completion_order' = Append(completion_order, i)
    /\ LET slot == GatherSlot(i, completion_order)
       IN  IF responses[i].kind = "results"
           THEN LET task == SearchAgent_execute(r_plan[1].tasks[i], responses[i].results)
                IN  /\ r_plan' = <<[r_plan[1] EXCEPT !.tasks[i] = task]>>
                    /\ coroutines' = [coroutines EXCEPT ![i] = "returned"]
                    /\ gather_results' = [gather_results EXCEPT ![slot] =
                                            <<[kind |-> "ResearchTask", task |-> task]>>]
                    /\ UNCHANGED r_pc
           ELSE /\ coroutines' = [coroutines EXCEPT ![i] = "raised"]
                /\ gather_results' = [gather_results EXCEPT ![slot] =
                                        <<[kind |-> "Exception"]>>]
                /\ r_pc' = IF ReturnExceptions THEN r_pc ELSE "raised"
                /\ UNCHANGED r_plan
    /\ UNCHANGED <<r_query, responses, completed_tasks, r_all_sources, r_conflicts,
                   findings>>
    /\ UNCHANGED <<pureVars, mainVars, provVars>>

\* A plausible slip: the wait given up once every coroutine has started and
\* one has ended (a timeout, or asyncio.wait(..., FIRST_COMPLETED)); a
\* coroutine that has not ended counts as failed.
GatherReturns_Timeout ==
    /\ r_pc = "gather"
    /\ \A i \in 1..Len(coroutines) : coroutines[i] # "created"
    /\ \E i \in 1..Len(coroutines) : coroutines[i] \in {"returned", "raised"}
    /\ completed_tasks' = [i \in 1..Len(gather_results) |->
                              IF gather_results[i] = <<>> THEN [kind |-> "Exception"]
                              ELSE gather_results[i][1]]
    /\ r_all_sources' = collect_sources(completed_tasks')
    /\ r_pc' = "phase3"
    /\ UNCHANGED <<r_query, responses, r_plan, coroutines, gather_results,
                   completion_order, r_conflicts, findings>>
    /\ UNCHANGED <<pureVars, mainVars, provVars>>

\* research: gather returns once every coroutine has ended; the loop over
\* completed_tasks then collects the sources.
GatherReturns ==
    /\ r_pc = "gather"
    /\ \A i \in 1..Len(coroutines) : coroutines[i] \in {"returned", "raised"}
    /\ completed_tasks' = [i \in 1..Len(gather_results) |-> gather_results[i][1]]
    /\ r_all_sources' = collect_sources(completed_tasks')
    /\ r_pc' = "phase3"
    /\ UNCHANGED <<r_query, responses, r_plan, coroutines, gather_results,
                   completion_order, r_conflicts, findings>>
    /\ UNCHANGED <<pureVars, mainVars, provVars>>

\* research, phase 3: all_sources = await self.source_checker.execute(all_sources).
\* The Source objects are those the tasks' results hold, so the tasks see
\* the qualities written here.
Phase3QualityAssessment ==
    /\ r_pc = "phase3"
    /\ r_all_sources' = SourceCheckerAgent_execute(r_all_sources)
    /\ r_plan' = <<[r_plan[1] EXCEPT !.tasks =
                      [i \in 1..Len(r_plan[1].tasks) |->
                          [r_plan[1].tasks[i] EXCEPT !.results =
                              SourceCheckerAgent_execute(r_plan[1].tasks[i].results)]]]>>
    /\ r_pc' = "phase4"
    /\ UNCHANGED <<r_query, responses, coroutines, gather_results, completion_order,
                   completed_tasks, r_conflicts, findings>>
    /\ UNCHANGED <<pureVars, mainVars, provVars>>

\* research, phase 4: conflicts = await self.conflict_detector.execute(all_sources)
Phase4ConflictDetection ==
    /\ r_pc = "phase4"
    /\ r_conflicts' = ConflictDetectionAgent_execute(r_all_sources)
    /\ r_pc' = "phase5"
    /\ UNCHANGED <<r_query, responses, r_plan, coroutines, gather_results,
                   completion_order, completed_tasks, r_all_sources, findings>>
    /\ UNCHANGED <<pureVars, mainVars, provVars>>

\* research, phase 5: findings = await self.synthesis_agent.execute(...);
\* return findings
Phase5Synthesis ==
    /\ r_pc = "phase5"
    /\ findings' = <<SynthesisAgent_execute(r_plan[1], r_all_sources, r_conflicts)>>
    /\ r_pc' = "returned"
    /\ UNCHANGED <<r_query, responses, r_plan, coroutines, gather_results,
                   completion_order, completed_tasks, r_all_sources, r_conflicts>>
    /\ UNCHANGED <<pureVars, mainVars, provVars>>

Next ==
    \/ Phase1Planning
    \/ CreateCoroutines
    \/ \E i \in 1..Len(coroutines) : StartSearch(i)
    \/ \E i \in 1..Len(coroutines) : FinishSearch(i)
    \/ GatherReturns
    \/ Phase3QualityAssessment
    \/ Phase4ConflictDetection
    \/ Phase5Synthesis

Init == InitResearch

Spec == Init /\ [][Next]_vars

\* The url, title and snippet of each source of a sequence.
Contents(sources) ==
    [k \in 1..Len(sources) |-> <<sources[k].url, sources[k].title, sources[k].snippet>>]

\* What the provider returned for one task, as url, title and snippet with
\* "" for an absent key; nothing when the task's coroutine raises.
Provided(response) ==
    IF response.kind = "results"
    THEN [k \in 1..Len(response.results) |->
            << IF "url" \in DOMAIN response.results[k] THEN response.results[k].url ELSE <<>>,
               IF "title" \in DOMAIN response.results[k] THEN response.results[k].title ELSE <<>>,
               IF "content" \in DOMAIN response.results[k] THEN response.results[k].content ELSE <<>> >>]
    ELSE <<>>

\* C1: whatever subset of the plan's tasks raise in SearchAgent.execute,
\* research does not raise: it returns findings whose sources are exactly the
\* results of the tasks that returned normally, in task order, and a task
\* that raised contributes none.
C1_FailuresIsolated ==
    /\ r_pc # "raised"
    /\ (r_pc = "returned") =>
        LET tasks == r_plan[1].tasks
        IN  /\ findings # <<>>
            /\ findings[1].sources =
                   Concat([i \in 1..Len(tasks) |->
                              IF coroutines[i] = "returned" THEN tasks[i].results ELSE <<>>])
            /\ \A i \in 1..Len(tasks) :
                /\ (coroutines[i] = "raised") <=> (responses[i].kind = "raises")
                /\ (coroutines[i] = "raised") => tasks[i].results = <<>>
                /\ (coroutines[i] = "returned") =>
                       Contents(tasks[i].results) = Provided(responses[i])

\* research has returned findings with sources although a task raised.
C1_Witness ==
    /\ r_pc = "returned"
    /\ \E i \in 1..Len(coroutines) : coroutines[i] = "raised"
    /\ \E i \in 1..Len(coroutines) :
           coroutines[i] = "returned" /\ r_plan[1].tasks[i].results # <<>>
    /\ findings[1].sources # <<>>

\* C2: in whatever order the search calls of phase 2 end, the aggregate is
\* the same: the sources grouped by task in the plan's task order, each
\* task's in the order in which the provider returned them.
C2_AggregateOrder ==
    /\ (r_pc \in {"phase3", "phase4", "phase5", "returned"}) =>
           Contents(r_all_sources) =
               Concat([i \in 1..Len(responses) |-> Provided(responses[i])])
    /\ (r_pc = "returned") =>
           Contents(findings[1].sources) =
               Concat([i \in 1..Len(responses) |-> Provided(responses[i])])

\* research has returned after a later task's search ended before an earlier
\* one's, both with results, one of them with two different results.
C2_Witness ==
    /\ r_pc = "returned"
    /\ \E a, b \in 1..Len(completion_order) :
        /\ a < b
        /\ completion_order[a] > completion_order[b]
        /\ Len(Provided(responses[completion_order[a]])) = 2
        /\ Provided(responses[completion_order[a]])[1] # Provided(responses[completion_order[a]])[2]
        /\ Provided(responses[completion_order[b]]) # <<>>

\* Where research is, counted along its code.
PhaseRank(pc) ==
    CASE pc = "phase1" -> 1
      [] pc = "create" -> 2
      [] pc = "gather" -> 2
      [] pc = "phase3" -> 3
      [] pc = "phase4" -> 4
      [] pc = "phase5" -> 5
      [] pc = "returned" -> 6

\* Every coroutine of phase 2 has returned or raised.
AllEnded == \A i \in 1..Len(coroutines) : coroutines[i] \in {"returned", "raised"}

\* What holds in every state of research: the plan is made before any task
\* execution exists; there is one execution per task of the plan from the
\* moment research awaits them, and none runs before that; while research
\* awaits, the next execution in list order can start whether or not those
\* started before it have ended; phase 3 and what follows find every
\* execution ended.
C13_State ==
    /\ (r_pc = "phase1") <=> (r_plan = <<>>)
    /\ (r_pc \in {"phase1", "create"}) <=> (coroutines = <<>>)
    /\ (coroutines # <<>>) => Len(coroutines) = Len(r_plan[1].tasks)
    /\ (r_pc = "gather") =>
           \A i \in 1..Len(coroutines) :
               (coroutines[i] = "created" /\ \A j \in 1..(i - 1) : coroutines[j] # "created")
                   => ENABLED StartSearch(i)
    /\ (r_pc \in {"phase3", "phase4", "phase5", "returned"}) => AllEnded
    /\ (r_pc \in {"phase1", "create", "gather"}) => completed_tasks = <<>>
    /\ (r_pc = "returned") <=> (findings # <<>>)

\* What holds of every step of research: it stays in its phase or goes to
\* the next one; the aggregate is written by the collection after gather and
\* by the re-check only, the conflicts by phase 4 only, the findings by
\* phase 5 only.
C13_Step ==
    /\ PhaseRank(r_pc') \in {PhaseRank(r_pc), PhaseRank(r_pc) + 1}
    /\ (r_all_sources' # r_all_sources) => (r_pc \in {"gather", "phase3"} /\ r_pc' # r_pc)
    /\ (r_conflicts' # r_conflicts) => (r_pc = "phase4" /\ r_pc' = "phase5")
    /\ (findings' # findings) => (r_pc = "phase5" /\ r_pc' = "returned")
    /\ (r_pc = "gather" /\ r_pc' = "phase3") => AllEnded

\* C13: in research the five phases run strictly in the order plan, search,
\* quality re-check, conflict detection, synthesis; all task executions of
\* phase 2 are handed to the event loop before research awaits any of them,
\* and none waits for another to end before it starts; the quality re-check
\* starts only after every task execution has returned or raised, under
\* every interleaving of the tasks.
C13_PhaseOrder == [](C13_State) /\ [][C13_Step]_vars

\* The re-check is about to start after three executions that overlapped:
\* the last one ended first, and one of them raised.
C13_Witness ==
    /\ r_pc = "phase3"
    /\ Len(coroutines) = 3
    /\ completion_order[1] = 3
    /\ \E i \in 1..3 : coroutines[i] = "raised"
    /\ \E i \in 1..3 : coroutines[i] = "returned"

\* The tasks of the plan, none before phase 1 has made it.
PlanTasks == IF r_plan = <<>> THEN <<>> ELSE r_plan[1].tasks

\* The SearchAgent.execute call for task i has returned.
ExecuteReturned(i) == i \in DOMAIN coroutines /\ coroutines[i] = "returned"

\* What holds of every task in every state: completed is false and results
\* empty until its execute call has returned, and from then on completed is
\* true and results are what the provider returned for it; so a task whose
\* search raised is left with completed = false and no results.
C14_State ==
    \A i \in 1..Len(PlanTasks) :
        /\ ~ExecuteReturned(i) => (PlanTasks[i].completed = FALSE /\ PlanTasks[i].results = <<>>)
        /\ ExecuteReturned(i) =>
               /\ PlanTasks[i].completed = TRUE
               /\ Contents(PlanTasks[i].results) = Provided(responses[i])
               /\ \A k \in 1..Len(PlanTasks[i].results) :
                      PlanTasks[i].results[k].quality = assess_quality(PlanTasks[i].results[k].url)

\* What holds of every step: a task's completed or results changes only in
\* the step in which its own execute call returns, which happens once, and
\* completed never goes back to false.
C14_Step ==
    \A i \in 1..Len(PlanTasks) :
        LET task == PlanTasks[i]
            task_ == r_plan'[1].tasks[i]
        IN  /\ (task_.completed # task.completed \/ task_.results # task.results)
                   => (coroutines[i] = "searching" /\ coroutines'[i] = "returned")
            /\ task.completed => task_.completed
            /\ ExecuteReturned(i) => coroutines'[i] = "returned"

\* C14: during one research run each ResearchTask's results and completed
\* are written at most once, only by the SearchAgent.execute call for that
\* task: completed is false and results empty until that call finishes,
\* completed never goes back from true to false, and a task whose search
\* raised is left with completed = false and empty results when research
\* returns.
C14_TaskWrittenOnce == [](C14_State) /\ [][C14_Step]_vars

\* research has returned; the first task's search raised and left it
\* untouched, the second task holds the two results of its search.
C14_Witness ==
    /\ r_pc = "returned"
    /\ coroutines[1] = "raised"
    /\ PlanTasks[1].completed = FALSE
    /\ PlanTasks[1].results = <<>>
    /\ coroutines[2] = "returned"
    /\ PlanTasks[2].completed = TRUE
    /\ Len(PlanTasks[2].results) = 2

----------------------------------------------------------------------------
(* research under a fair event loop: a step that can be taken (the next    *)
(* line of research, the start of a created coroutine, the end of a search *)
(* whose provider call has ended) is taken in the end.  A provider call    *)
(* that hangs enables no step.                                             *)

\* What one step of the run does to the position of research and to the
\* states of the coroutines: every action of Next, with what it computes left
\* out.
EventLoopStep ==
    \/ r_pc = "phase1" /\ r_pc' = "create" /\ coroutines' = coroutines
    \/ /\ r_pc = "create"
       /\ r_pc' = "gather"
       /\ coroutines' = [i \in 1..Len(r_plan[1].tasks) |-> "created"]
    \/ /\ r_pc = "gather"
       /\ r_pc' = r_pc
       /\ \E i \in 1..Len(coroutines) :
            \/ /\ coroutines[i] = "created"
               /\ \A j \in 1..(i - 1) : coroutines[j] # "created"
               /\ coroutines' = [coroutines EXCEPT ![i] = "searching"]
            \/ /\ coroutines[i] = "searching"
               /\ responses[i].kind # "hangs"
               /\ coroutines' = [coroutines EXCEPT ![i] =
                                    IF responses[i].kind = "results" THEN "returned"
                                    ELSE "raised"]
    \/ /\ r_pc = "gather"
       /\ \A i \in 1..Len(coroutines) : coroutines[i] \in {"returned", "raised"}
       /\ r_pc' = "phase3"
       /\ coroutines' = coroutines
    \/ r_pc = "phase3" /\ r_pc' = "phase4" /\ coroutines' = coroutines
    \/ r_pc = "phase4" /\ r_pc' = "phase5" /\ coroutines' = coroutines
    \/ r_pc = "phase5" /\ r_pc' = "returned" /\ coroutines' = coroutines

\* Every step of research is such a step, so the event loop can step
\* wherever research can.  (Conversely no state in which the event loop can
\* step is without a successor by Next.)
EventLoopStepIsNext == [][<<EventLoopStep>>_<<r_pc, coroutines>>]_vars

SpecLive == Init /\ [][Next]_vars /\ WF_<<r_pc, coroutines>>(EventLoopStep)

\* Every provider call of the run returns or raises in the end.
NoCallHangs == \A i \in DOMAIN responses : responses[i].kind # "hangs"

\* Some provider call of the run never ends.
SomeCallHangs == \E i \in DOMAIN responses : responses[i].kind = "hangs"

\* research has got past its await of gather.
PastGather == r_pc \in {"phase3", "phase4", "phase5", "returned"}

\* C15: research has no timeout, retry or cancellation: if every provider
\* search call of phase 2 returns or raises in the end, research returns a
\* ResearchFindings in the end; if one provider call never finishes,
\* research never reaches the quality re-check and never returns, even when
\* all other tasks have finished.
C15_NoTimeout ==
    /\ NoCallHangs ~> (r_pc = "returned" /\ findings # <<>>)
    /\ [](SomeCallHangs => (~PastGather /\ findings = <<>>))
    /\ [][\A i \in 1..Len(coroutines) :
              /\ (coroutines[i] # "created") => coroutines'[i] # "created"
              /\ (coroutines[i] \in {"returned", "raised"}) => coroutines'[i] = coroutines[i]]_vars

\* research waits for a provider call that hangs although the two other
\* executions have ended, one of them with results.
C15_Witness ==
    /\ r_pc = "gather"
    /\ Len(coroutines) = 3
    /\ responses[2].kind = "hangs"
    /\ coroutines[2] = "searching"
    /\ coroutines[1] = "returned"
    /\ PlanTasks[1].results # <<>>
    /\ coroutines[3] \in {"returned", "raised"}

----------------------------------------------------------------------------
\* The qualities of the sources of a sequence, in order.
Qualities(sources) == [k \in 1..Len(sources) |-> sources[k].quality]

\* What holds of the aggregate from the end of phase 2 on: every source has
\* the quality that assess_quality gives its url, so that the re-check would
\* change nothing, once or twice over.
C16_State ==
    PastGather =>
        /\ \A k \in 1..Len(r_all_sources) :
               r_all_sources[k].quality = assess_quality(r_all_sources[k].url)
        /\ SourceCheckerAgent_execute(r_all_sources) = r_all_sources
        /\ SourceCheckerAgent_execute(SourceCheckerAgent_execute(r_all_sources))
               = SourceCheckerAgent_execute(r_all_sources)

\* What holds of the step of phase 3: the aggregate after it has the length,
\* the order, the urls, titles and snippets and the qualities it had before.
C16_Step ==
    (r_pc = "phase3" /\ r_pc' = "phase4") =>
        /\ Len(r_all_sources') = Len(r_all_sources)
        /\ Contents(r_all_sources') = Contents(r_all_sources)
        /\ Qualities(r_all_sources') = Qualities(r_all_sources)
        /\ r_plan' = r_plan

====
